---- MODULE Spec2Model ----
(***************************************************************************)
(* Model of the SX127X LoRa driver src/LoRa/spi-sx1278.c: the register     *)
(* transport, the chip's register file as the driver sees it, the          *)
(* sx127X_* register functions, and the loraspi_* session operations       *)
(* (probe, read, write, setstate, getrssi) run by two callers that share   *)
(* one chip and one buf_lock.  The configuration functions (frequency,     *)
(* power, LNA gain, spreading factor, bandwidth, coding rate, RX timeout)  *)
(* are called after probe under SpecConfig.                                *)
(***************************************************************************)
EXTENDS Integers, Sequences, FiniteSets, TLC

(* ------------------------------ bounds --------------------------------- *)
\* received packets the chip may deliver in one behaviour
MaxRxPackets == 1
\* register transfers that may fail in one behaviour
MaxFaults == 1
\* capacity of the session buffers rx_buf / tx_buf (lrdata->bufmaxlen is set
\* by the session framework, outside this file)
bufmaxlen == 12
\* configuration calls made in one behaviour
MaxCalls == 1

(* --------------------------- program constants ------------------------- *)
SX127X_REG_FIFO == 0
SX127X_REG_OP_MODE == 1
SX127X_REG_FRF_MSB == 6
SX127X_REG_PA_CONFIG == 9
SX127X_REG_LNA == 12
SX127X_REG_FIFO_ADDR_PTR == 13
SX127X_REG_FIFO_TX_BASE_ADDR == 14
SX127X_REG_FIFO_RX_BASE_ADDR == 15
SX127X_REG_FIFO_RX_CURRENT_ADDR == 16
SX127X_REG_IRQ_FLAGS == 18
SX127X_REG_RX_NB_BYTES == 19
SX127X_REG_PKT_SNR_VALUE == 25
SX127X_REG_PKT_RSSI_VALUE == 26
SX127X_REG_RSSI_VALUE == 27
SX127X_REG_MODEM_CONFIG1 == 29
SX127X_REG_MODEM_CONFIG2 == 30
SX127X_REG_PREAMBLE_MSB == 32
SX127X_REG_PREAMBLE_LSB == 33
SX127X_REG_PAYLOAD_LENGTH == 34
SX127X_REG_VERSION == 66

SX127X_SLEEP_MODE == 0
SX127X_STANDBY_MODE == 1
SX127X_TX_MODE == 3
SX127X_RXCONTINUOUS_MODE == 5
SX127X_CAD_MODE == 7

SX127X_FLAG_RXTIMEOUT == 128
SX127X_FLAG_RXDONE == 64
SX127X_FLAG_PAYLOADCRCERROR == 32
SX127X_FLAG_VALIDHEADER == 16
SX127X_FLAG_TXDONE == 8

SX127X_MAX_FIFO_LENGTH == 255
RX_POLL_MAX == 250
TX_BASE_ADR == 128

ENODATA == 61
EBADMSG == 74
ENODEV == 19
EIO == 5

\* crystal frequency and the scale of the frequency register
F_XOSC == 32000000
POW_2_19 == 524288

Byte == 0..255
Procs == {1, 2}
NoProc == 0

(* ------------------------------ bit operations ------------------------- *)
RECURSIVE AndBits(_, _, _)
AndBits(a, b, n) ==
  IF n = 0 THEN 0
  ELSE (a % 2) * (b % 2) + 2 * AndBits(a \div 2, b \div 2, n - 1)

\* a & b on bytes
BitAnd(a, b) == AndBits(a, b, 8)

\* a | b on bytes
BitOr(a, b) == a + b - BitAnd(a, b)

Min(a, b) == IF a < b THEN a ELSE b

\* F applied to the value of v, v being evaluated once
Bind(v, F(_)) == CHOOSE r \in {F(x) : x \in {v}} : TRUE

(* --------------------- the chip behind the transport ------------------- *)
\* registers of the chip the model keeps
RegSet ==
  { SX127X_REG_OP_MODE, SX127X_REG_FIFO_ADDR_PTR, SX127X_REG_FIFO_TX_BASE_ADDR,
    SX127X_REG_FIFO_RX_BASE_ADDR, SX127X_REG_FIFO_RX_CURRENT_ADDR,
    SX127X_REG_IRQ_FLAGS, SX127X_REG_RX_NB_BYTES, SX127X_REG_RSSI_VALUE,
    SX127X_REG_MODEM_CONFIG1, SX127X_REG_PREAMBLE_MSB, SX127X_REG_PREAMBLE_LSB,
    SX127X_REG_PAYLOAD_LENGTH, SX127X_REG_VERSION,
    SX127X_REG_FRF_MSB, SX127X_REG_FRF_MSB + 1, SX127X_REG_FRF_MSB + 2,
    SX127X_REG_PA_CONFIG, SX127X_REG_LNA, SX127X_REG_MODEM_CONFIG2,
    SX127X_REG_MODEM_CONFIG2 + 1, SX127X_REG_PKT_SNR_VALUE,
    SX127X_REG_PKT_RSSI_VALUE }

\* registers a write does not change
ReadOnlyRegs ==
  { SX127X_REG_FIFO_RX_CURRENT_ADDR, SX127X_REG_RX_NB_BYTES,
    SX127X_REG_RSSI_VALUE, SX127X_REG_VERSION, SX127X_REG_PKT_SNR_VALUE,
    SX127X_REG_PKT_RSSI_VALUE }

\* the 3-bit mode field of an op-mode byte
ModeOf(opmode) == opmode % 8

\* the FIFO holds 0 where nothing has been stored; fifo maps the stored
\* addresses to their bytes
FifoAt(fifo, a) == IF a \in DOMAIN fifo THEN fifo[a] ELSE 0
FifoPut(fifo, a, v) == [x \in DOMAIN fifo \cup {a} |-> IF x = a THEN v ELSE fifo[x]]

\* effect of writing one byte v to register adr of chip ch
HwWrite(ch, adr, v) ==
  IF adr = SX127X_REG_FIFO THEN
    [ch EXCEPT !.fifo = FifoPut(@, ch.regs[SX127X_REG_FIFO_ADDR_PTR], v),
               !.regs[SX127X_REG_FIFO_ADDR_PTR] = (@ + 1) % 256]
  ELSE IF adr = SX127X_REG_IRQ_FLAGS THEN
    \* write-1-to-clear
    [ch EXCEPT !.regs[adr] = BitAnd(@, 255 - v)]
  ELSE IF adr = SX127X_REG_OP_MODE THEN
    \* the LoRa-select bit 7 takes a written value only in Sleep mode, and
    \* entering RXContinuous restarts the receive position at the RX base
    [ch EXCEPT
       !.regs[adr] = IF ModeOf(@) = SX127X_SLEEP_MODE THEN v
                     ELSE (v % 128) + 128 * (@ \div 128),
       !.rxbyte = IF ModeOf(v) = SX127X_RXCONTINUOUS_MODE
                     /\ ModeOf(ch.regs[adr]) # SX127X_RXCONTINUOUS_MODE
                  THEN ch.regs[SX127X_REG_FIFO_RX_BASE_ADDR] ELSE @]
  ELSE IF adr \in ReadOnlyRegs \/ adr \notin RegSet THEN ch
  ELSE [ch EXCEPT !.regs[adr] = v]

\* address of the i-th byte of a burst starting at adr (the FIFO port stays)
BurstAdr(adr, i) == IF adr = SX127X_REG_FIFO THEN adr ELSE adr + i - 1

RECURSIVE HwWriteN(_, _, _, _)
HwWriteN(ch, adr, data, i) ==
  IF i > Len(data) THEN ch
  ELSE Bind(HwWrite(ch, BurstAdr(adr, i), data[i]),
            LAMBDA c2 : HwWriteN(c2, adr, data, i + 1))

\* value one read of register adr returns
HwReadVal(ch, adr) ==
  IF adr = SX127X_REG_FIFO
  THEN FifoAt(ch.fifo, ch.regs[SX127X_REG_FIFO_ADDR_PTR])
  ELSE IF adr \in RegSet THEN ch.regs[adr] ELSE 0

\* chip after a burst read of n bytes (a FIFO read advances the pointer)
HwAfterRead(ch, adr, n) ==
  IF adr = SX127X_REG_FIFO
  THEN [ch EXCEPT !.regs[SX127X_REG_FIFO_ADDR_PTR] = (@ + n) % 256]
  ELSE ch

\* the n bytes a burst read starting at adr returns
HwReadData(ch, adr, n) ==
  [i \in 1..n |->
     IF adr = SX127X_REG_FIFO
     THEN FifoAt(ch.fifo, (ch.regs[SX127X_REG_FIFO_ADDR_PTR] + i - 1) % 256)
     ELSE HwReadVal(ch, adr + i - 1)]

(* ------------------------- register transport -------------------------- *)
\* A call in progress is a record m:
\*   chip    the chip's registers, FIFO and receive write position
\*   n       register transfers made so far by this step
\*   fk, fg  the transfer that fails in this step (0: none) and the byte an
\*           uninitialised local holds when its read failed
\*   err     a transfer of this step has failed
\*   log     the transfers made, in order
\*   clears  the sx127X_clearLoRaFlag calls made: mask, flags before and after
\*   status  return value of the last sx127X_read_reg / sx127X_write_reg
\*   buf     buffer filled by the last sx127X_read_reg
\*   rv      return value of the last sx127X_* function
\*   ub      an array has been indexed out of its range
\* The operators below take m as a value, never as an unevaluated expression.
NewCall(ch, fk, fg) ==
  [chip |-> ch, n |-> 0, fk |-> fk, fg |-> fg, err |-> FALSE, log |-> <<>>,
   clears |-> <<>>, status |-> 0, buf |-> <<>>, rv |-> 0, ub |-> FALSE]

LogEntry(kind, adr, data, ok, ch) ==
  [kind |-> kind, adr |-> adr, data |-> data, ok |-> ok,
   opmode |-> ch.regs[SX127X_REG_OP_MODE]]

\* sx127X_read_reg with sx127X_sync: reads Len(old) bytes starting at adr into
\* a buffer that held old; returns the byte count, or the transport error
sx127X_read_reg(m, adr, old) ==
  IF m.n + 1 = m.fk
  THEN [m EXCEPT !.n = @ + 1, !.err = TRUE, !.buf = old, !.status = -EIO,
                 !.log = Append(@, LogEntry("r", adr, old, FALSE, m.chip))]
  ELSE Bind(HwReadData(m.chip, adr, Len(old)), LAMBDA data :
         [m EXCEPT !.n = @ + 1, !.buf = data, !.status = Len(old),
                   !.chip = HwAfterRead(@, adr, Len(old)),
                   !.log = Append(@, LogEntry("r", adr, data, TRUE, m.chip))])

\* sx127X_write_reg with sx127X_sync: writes the bytes of data starting at adr
sx127X_write_reg(m, adr, data) ==
  IF m.n + 1 = m.fk
  THEN [m EXCEPT !.n = @ + 1, !.err = TRUE, !.status = -EIO,
                 !.log = Append(@, LogEntry("w", adr, data, FALSE, m.chip))]
  ELSE Bind(HwWriteN(m.chip, adr, data, 1), LAMBDA ch :
         [m EXCEPT !.n = @ + 1, !.chip = ch, !.status = Len(data),
                   !.log = Append(@, LogEntry("w", adr, data, TRUE, ch))])

(* --------------------------- sx127X functions -------------------------- *)
\* variant of sx127X_readVersion that takes 0xFF for a version
sx127X_readVersion_anyByte(m) ==
  Bind(sx127X_read_reg(m, SX127X_REG_VERSION, <<m.fg>>), LAMBDA r :
    [r EXCEPT !.rv = IF r.status = 1 /\ 0 < r.buf[1]
                     THEN r.buf[1] ELSE -ENODEV])

sx127X_readVersion(m) ==
  Bind(sx127X_read_reg(m, SX127X_REG_VERSION, <<m.fg>>), LAMBDA r :
    [r EXCEPT !.rv = IF r.status = 1 /\ 0 < r.buf[1] /\ r.buf[1] < 255
                     THEN r.buf[1] ELSE -ENODEV])

sx127X_getMode(m) ==
  Bind(sx127X_read_reg(m, SX127X_REG_OP_MODE, <<m.fg>>), LAMBDA r :
    [r EXCEPT !.rv = r.buf[1]])

\* variant of sx127X_setState that writes the mode alone
sx127X_setState_bare(m, st) ==
  Bind(sx127X_getMode(m), LAMBDA a :
    sx127X_write_reg(a, SX127X_REG_OP_MODE, <<BitAnd(st, 7)>>))

sx127X_setState(m, st) ==
  Bind(sx127X_getMode(m), LAMBDA a :
    sx127X_write_reg(a, SX127X_REG_OP_MODE,
                     <<BitOr(BitAnd(a.rv, 248), BitAnd(st, 7))>>))

sx127X_getState(m) ==
  Bind(sx127X_getMode(m), LAMBDA a : [a EXCEPT !.rv = BitAnd(a.rv, 7)])

sx127X_getLoRaAllFlag(m) ==
  Bind(sx127X_read_reg(m, SX127X_REG_IRQ_FLAGS, <<m.fg>>), LAMBDA r :
    [r EXCEPT !.rv = r.buf[1]])

sx127X_getLoRaFlag(m, f) ==
  Bind(sx127X_getLoRaAllFlag(m), LAMBDA a : [a EXCEPT !.rv = BitAnd(a.rv, f)])

\* the record of one sx127X_clearLoRaFlag call: m before it, w after it
Cleared(m, w, f) ==
  [w EXCEPT !.clears =
      Append(@, [mask |-> f, before |-> m.chip.regs[SX127X_REG_IRQ_FLAGS],
                 after |-> w.chip.regs[SX127X_REG_IRQ_FLAGS],
                 ok |-> w.err = m.err])]

sx127X_clearLoRaFlag(m, f) ==
  Bind(sx127X_getLoRaAllFlag(m), LAMBDA a :
    Bind(sx127X_write_reg(a, SX127X_REG_IRQ_FLAGS, <<BitOr(a.rv, f)>>),
         LAMBDA w : Cleared(m, w, f)))

sx127X_clearLoRaAllFlag(m) == sx127X_clearLoRaFlag(m, 255)

sx127X_setLoRaImplicit(m, yesno) ==
  Bind(sx127X_read_reg(m, SX127X_REG_MODEM_CONFIG1, <<m.fg>>), LAMBDA r :
    sx127X_write_reg(r, SX127X_REG_MODEM_CONFIG1,
        <<IF yesno # 0 THEN BitOr(r.buf[1], 1) ELSE BitAnd(r.buf[1], 254)>>))

sx127X_getLoRaPreambleLen(m) ==
  Bind(sx127X_read_reg(m, SX127X_REG_PREAMBLE_MSB, <<m.fg, m.fg>>), LAMBDA r :
    [r EXCEPT !.rv = r.buf[1] * 256 + r.buf[2]])

Zeros(n) == [i \in 1..n |-> 0]

\* reads the last packet into a zeroed buffer; rv is the count or the error,
\* buf the bytes the buffer then holds
sx127X_readLoRaData(m, len) ==
  Bind(sx127X_read_reg(m, SX127X_REG_FIFO_RX_CURRENT_ADDR, <<m.fg>>), LAMBDA a :
   Bind(sx127X_write_reg(a, SX127X_REG_FIFO_ADDR_PTR, <<a.buf[1]>>), LAMBDA b :
    Bind(sx127X_read_reg(b, SX127X_REG_RX_NB_BYTES, <<m.fg>>), LAMBDA c :
     Bind(sx127X_read_reg(c, SX127X_REG_FIFO,
                          Zeros(IF c.buf[1] < len THEN c.buf[1] ELSE len)),
          LAMBDA d : [d EXCEPT !.rv = d.status]))))

\* variant of sx127X_sendLoRaData that leaves the FIFO pointer where it is
sx127X_sendLoRaData_noPointer(m, buf, len) ==
  Bind(sx127X_read_reg(m, SX127X_REG_FIFO_TX_BASE_ADDR, <<m.fg>>), LAMBDA b :
    Bind(sx127X_write_reg(b, SX127X_REG_FIFO,
           SubSeq(buf, 1, IF len < SX127X_MAX_FIFO_LENGTH THEN len
                          ELSE SX127X_MAX_FIFO_LENGTH)), LAMBDA w :
     Bind(sx127X_write_reg(w, SX127X_REG_PAYLOAD_LENGTH, <<w.status % 256>>),
          LAMBDA q : [q EXCEPT !.rv = w.status])))

\* writes the first min(len, 255) bytes of buf to the FIFO
sx127X_sendLoRaData(m, buf, len) ==
  Bind(sx127X_read_reg(m, SX127X_REG_FIFO_TX_BASE_ADDR, <<m.fg>>), LAMBDA a :
   Bind(sx127X_write_reg(a, SX127X_REG_FIFO_ADDR_PTR, <<a.buf[1]>>), LAMBDA b :
    Bind(sx127X_write_reg(b, SX127X_REG_FIFO,
           SubSeq(buf, 1, IF len < SX127X_MAX_FIFO_LENGTH THEN len
                          ELSE SX127X_MAX_FIFO_LENGTH)), LAMBDA w :
     Bind(sx127X_write_reg(w, SX127X_REG_PAYLOAD_LENGTH, <<w.status % 256>>),
          LAMBDA q : [q EXCEPT !.rv = w.status]))))

sx127X_getLoRaRSSI(m) ==
  Bind(sx127X_getMode(m), LAMBDA a :
   Bind(sx127X_read_reg(a, SX127X_REG_RSSI_VALUE, <<m.fg>>), LAMBDA r :
    [r EXCEPT !.rv = IF BitAnd(a.rv, 8) # 0 THEN -164 + r.buf[1]
                     ELSE -157 + r.buf[1]]))

\* variant of sx127X_startLoRaMode that sets the LoRa-select bit without going
\* to Sleep first
sx127X_startLoRaMode_noSleep(m) ==
  Bind(sx127X_getMode(m), LAMBDA c :
   Bind(sx127X_write_reg(c, SX127X_REG_OP_MODE, <<BitOr(c.rv, 128)>>), LAMBDA d :
    Bind(sx127X_setState(d, SX127X_STANDBY_MODE), LAMBDA e :
     Bind(sx127X_setLoRaImplicit(e, 0), LAMBDA h :
      Bind(sx127X_write_reg(h, SX127X_REG_FIFO_RX_BASE_ADDR, <<0>>), LAMBDA i :
       Bind(sx127X_write_reg(i, SX127X_REG_FIFO_ADDR_PTR, <<0>>), LAMBDA j :
        Bind(sx127X_clearLoRaAllFlag(j), LAMBDA k :
         sx127X_setState(k, SX127X_RXCONTINUOUS_MODE))))))))

sx127X_startLoRaMode(m) ==
  Bind(sx127X_getMode(m), LAMBDA a :
   Bind(sx127X_setState(a, SX127X_SLEEP_MODE), LAMBDA b :
    Bind(sx127X_getMode(b), LAMBDA c :
     Bind(sx127X_write_reg(c, SX127X_REG_OP_MODE, <<BitOr(c.rv, 128)>>), LAMBDA d :
      Bind(sx127X_setState(d, SX127X_STANDBY_MODE), LAMBDA e :
       Bind(sx127X_getMode(e), LAMBDA g :
        Bind(sx127X_setLoRaImplicit(g, 0), LAMBDA h :
         Bind(sx127X_write_reg(h, SX127X_REG_FIFO_RX_BASE_ADDR, <<0>>), LAMBDA i :
          Bind(sx127X_write_reg(i, SX127X_REG_FIFO_ADDR_PTR, <<0>>), LAMBDA j :
           Bind(sx127X_clearLoRaAllFlag(j), LAMBDA k :
            sx127X_setState(k, SX127X_RXCONTINUOUS_MODE)))))))))))

init_sx127X(m) ==
  Bind(sx127X_readVersion(m), LAMBDA a :
    IF a.rv > 0 THEN Bind(sx127X_startLoRaMode(a), LAMBDA z : [z EXCEPT !.rv = a.rv])
    ELSE a)

(* ------------------------ integer arithmetic of C ---------------------- *)
\* a / b of C on signed integers: the quotient truncated towards zero
CDiv(a, b) == IF a >= 0 THEN a \div b ELSE -((-a) \div b)

\* a byte read as int8_t
S8(b) == IF b >= 128 THEN b - 256 ELSE b

\* 1 << n
RECURSIVE Pow2(_)
Pow2(n) == IF n = 0 THEN 1 ELSE 2 * Pow2(n - 1)

RECURSIVE GCD(_, _)
GCD(a, b) == IF b = 0 THEN a ELSE GCD(b, a % b)

\* a * b / c on uint64_t operands whose product stays below 2^64: the exact
\* quotient, computed with b and c reduced by their common divisor
MulDiv(a, b, c) ==
  (a \div (c \div GCD(b, c))) * (b \div GCD(b, c))
    + ((a % (c \div GCD(b, c))) * (b \div GCD(b, c))) \div (c \div GCD(b, c))

\* the bytes of a, least significant first, as many as a needs
RECURSIVE ToBytes(_)
ToBytes(a) == IF a = 0 THEN <<>> ELSE <<a % 256>> \o ToBytes(a \div 256)

\* the bytes of bytes * f + carry, least significant first
RECURSIVE MulBytes(_, _, _)
MulBytes(bytes, f, carry) ==
  IF bytes = <<>> THEN ToBytes(carry)
  ELSE <<(bytes[1] * f + carry) % 256>>
         \o MulBytes(Tail(bytes), f, (bytes[1] * f + carry) \div 256)

\* the low 32 bits of a value given by its bytes
Low32(bytes) == IF Len(bytes) > 4 THEN SubSeq(bytes, 1, 4) ELSE bytes

\* <<quotient, remainder>> of the value of bytes divided by d
RECURSIVE DivBytes(_, _)
DivBytes(bytes, d) ==
  IF bytes = <<>> THEN <<0, 0>>
  ELSE Bind(DivBytes(Tail(bytes), d), LAMBDA h :
         <<h[1] * 256 + (h[2] * 256 + bytes[1]) \div d,
           (h[2] * 256 + bytes[1]) % d>>)

\* a * b / d on uint32_t: the product wraps at 2^32 before the division
U32MulDiv(a, b, d) == DivBytes(Low32(MulBytes(ToBytes(a), b, 0)), d)[1]

\* a * b / d in the integers
ExactMulDiv(a, b, d) == DivBytes(MulBytes(ToBytes(a), b, 0), d)[1]

(* ---------------------- sx127X configuration functions ----------------- *)
\* variant of sx127X_setLoRaFreq that stores the bytes least significant first
sx127X_setLoRaFreq_littleEndian(m, fr) ==
  Bind(MulDiv(fr, POW_2_19, F_XOSC), LAMBDA frt :
    sx127X_write_reg(m, SX127X_REG_FRF_MSB,
        <<frt % 256, (frt \div 256) % 256, (frt \div 65536) % 256>>))

sx127X_setLoRaFreq(m, fr) ==
  Bind(MulDiv(fr, POW_2_19, F_XOSC), LAMBDA frt :
    sx127X_write_reg(m, SX127X_REG_FRF_MSB,
        <<(frt \div 65536) % 256, (frt \div 256) % 256, frt % 256>>))

sx127X_getLoRaFreq(m) ==
  Bind(sx127X_read_reg(m, SX127X_REG_FRF_MSB, <<m.fg, m.fg, m.fg>>), LAMBDA r :
    IF r.status <= 0 THEN [r EXCEPT !.rv = 0]
    ELSE [r EXCEPT !.rv = MulDiv((r.buf[1] * 256 + r.buf[2]) * 256 + r.buf[3],
                                 F_XOSC, POW_2_19)])

sx127X_setLoRaPower(m, pout) ==
  Bind(IF pout > 15 THEN <<1, 7, (pout - 2) % 256>>
       ELSE IF pout < 0 THEN <<0, 2, (3 + pout) % 256>>
       ELSE <<0, 7, pout % 256>>, LAMBDA v :
    sx127X_write_reg(m, SX127X_REG_PA_CONFIG,
                     <<BitOr(BitOr(128 * v[1], 16 * v[2]), v[3])>>))

sx127X_getLoRaPower(m) ==
  Bind(sx127X_read_reg(m, SX127X_REG_PA_CONFIG, <<m.fg>>), LAMBDA r :
    [r EXCEPT !.rv =
       IF BitAnd(r.buf[1], 128) # 0 THEN 2 + BitAnd(r.buf[1], 15)
       ELSE CDiv((108 + 6 * (BitAnd(r.buf[1], 112) \div 16))
                   - (150 - BitAnd(r.buf[1], 15) * 10), 10)])

\* the tables are indexed from 0 in the code, from 1 here
lna_gain == <<0, -6, -12, -24, -26, -48>>

\* variant of LnaIndex that looks for an entry below db
RECURSIVE LnaIndex_strict(_, _)
LnaIndex_strict(db, i) ==
  IF i < 5 /\ ~(lna_gain[i + 1] < db) THEN LnaIndex_strict(db, i + 1) ELSE i

\* the loop of sx127X_setLoRaLNA: i from 0 while i < 5 and lna_gain[i] > db
RECURSIVE LnaIndex(_, _)
LnaIndex(db, i) ==
  IF i < 5 /\ ~(lna_gain[i + 1] <= db) THEN LnaIndex(db, i + 1) ELSE i

sx127X_setLoRaLNA(m, db) ==
  Bind(sx127X_read_reg(m, SX127X_REG_LNA, <<m.fg>>), LAMBDA r :
    sx127X_write_reg(r, SX127X_REG_LNA,
        <<BitOr(BitAnd(r.buf[1], 31), ((LnaIndex(db, 0) + 1) * 32) % 256)>>))

\* lna_gain[i] with i = g - 1 taken from the register: outside 0..5 the read
\* is out of the array and yields whatever lies there
sx127X_getLoRaLNA(m) ==
  Bind(sx127X_read_reg(m, SX127X_REG_LNA, <<m.fg>>), LAMBDA r :
    IF (r.buf[1] \div 32) - 1 \in 0..5
    THEN [r EXCEPT !.rv = lna_gain[r.buf[1] \div 32]]
    ELSE [r EXCEPT !.rv = S8(m.fg), !.ub = TRUE])

\* the loop of sx127X_setLoRaSPRFactor: sf from 6 while sf < 12 and
\* c_s # 1 << sf
RECURSIVE SprIndex(_, _)
SprIndex(c_s, sf) ==
  IF sf < 12 /\ c_s # Pow2(sf) THEN SprIndex(c_s, sf + 1) ELSE sf

sx127X_setLoRaSPRFactor(m, c_s) ==
  Bind(sx127X_read_reg(m, SX127X_REG_MODEM_CONFIG2, <<m.fg>>), LAMBDA r :
    sx127X_write_reg(r, SX127X_REG_MODEM_CONFIG2,
        <<BitOr(BitAnd(r.buf[1], 15), (SprIndex(c_s, 6) * 16) % 256)>>))

sx127X_getLoRaSPRFactor(m) ==
  Bind(sx127X_read_reg(m, SX127X_REG_MODEM_CONFIG2, <<m.fg>>), LAMBDA r :
    [r EXCEPT !.rv = Pow2(r.buf[1] \div 16)])

hz == <<7800, 10400, 15600, 20800, 31250, 41700, 62500, 125000, 250000, 500000>>

\* variant of BwIndex that looks for an entry above bw
RECURSIVE BwIndex_strict(_, _)
BwIndex_strict(bw, i) ==
  IF i < 9 /\ ~(hz[i + 1] > bw) THEN BwIndex_strict(bw, i + 1) ELSE i

\* the loop of sx127X_setLoRaBW: i from 0 while i < 9 and hz[i] < bw
RECURSIVE BwIndex(_, _)
BwIndex(bw, i) ==
  IF i < 9 /\ ~(hz[i + 1] >= bw) THEN BwIndex(bw, i + 1) ELSE i

sx127X_setLoRaBW(m, bw) ==
  Bind(sx127X_read_reg(m, SX127X_REG_MODEM_CONFIG1, <<m.fg>>), LAMBDA r :
    sx127X_write_reg(r, SX127X_REG_MODEM_CONFIG1,
        <<BitOr(BitAnd(r.buf[1], 15), (BwIndex(bw, 0) * 16) % 256)>>))

\* hz[bw] with bw taken from the register: above 9 the read is out of the
\* array and yields whatever lies there (a divisor, taken nonzero)
sx127X_getLoRaBW(m) ==
  Bind(sx127X_read_reg(m, SX127X_REG_MODEM_CONFIG1, <<m.fg>>), LAMBDA r :
    IF r.buf[1] \div 16 \in 0..9
    THEN [r EXCEPT !.rv = hz[(r.buf[1] \div 16) + 1]]
    ELSE [r EXCEPT !.rv = 1 + m.fg, !.ub = TRUE])

sx127X_setLoRaCR(m, cr) ==
  Bind(sx127X_read_reg(m, SX127X_REG_MODEM_CONFIG1, <<m.fg>>), LAMBDA r :
    sx127X_write_reg(r, SX127X_REG_MODEM_CONFIG1,
        <<BitOr(BitAnd(r.buf[1], 14), ((BitAnd(cr, 15) - 4) * 2) % 256)>>))

sx127X_getLoRaCR(m) ==
  Bind(sx127X_read_reg(m, SX127X_REG_MODEM_CONFIG1, <<m.fg>>), LAMBDA r :
    [r EXCEPT !.rv = (64 + (BitAnd(r.buf[1], 14) \div 2) + 4) % 256])

\* variant of ClampSymbols without the lower limit
ClampSymbols_noLow(n) == IF n > 1023 THEN 1023 ELSE n

\* n of sx127X_setLoRaRXByteTimeout after its two range checks
ClampSymbols(n) == IF n < 1 THEN 1 ELSE IF n > 1023 THEN 1023 ELSE n

sx127X_setLoRaRXByteTimeout(m, n) ==
  Bind(sx127X_read_reg(m, SX127X_REG_MODEM_CONFIG2, <<m.fg>>), LAMBDA r :
    sx127X_write_reg(r, SX127X_REG_MODEM_CONFIG2,
        <<BitOr(BitAnd(r.buf[1], 252), ClampSymbols(n) \div 256),
          ClampSymbols(n) % 256>>))

sx127X_getLoRaRXByteTimeout(m) ==
  Bind(sx127X_read_reg(m, SX127X_REG_MODEM_CONFIG2, <<m.fg, m.fg>>), LAMBDA r :
    [r EXCEPT !.rv = BitAnd(r.buf[1], 3) * 256 + r.buf[2]])

sx127X_setLoRaRXTimeout(m, ms) ==
  Bind(sx127X_getLoRaBW(m), LAMBDA b :
   Bind(sx127X_getLoRaSPRFactor(b), LAMBDA c :
    Bind(sx127X_setLoRaRXByteTimeout(c, U32MulDiv(ms, b.rv, c.rv * 1000)),
         LAMBDA w : [w EXCEPT !.ub = b.ub, !.rv = 0])))

sx127X_getLoRaRXTimeout(m) ==
  Bind(sx127X_getLoRaRXByteTimeout(m), LAMBDA n :
   Bind(sx127X_getLoRaSPRFactor(n), LAMBDA c :
    Bind(sx127X_getLoRaBW(c), LAMBDA b :
      [b EXCEPT !.rv = U32MulDiv(1000 * n.rv, c.rv, b.rv)])))

sx127X_getLoRaLastPacketSNR(m) ==
  Bind(sx127X_read_reg(m, SX127X_REG_PKT_SNR_VALUE, <<m.fg>>), LAMBDA r :
    [r EXCEPT !.rv = CDiv(S8(r.buf[1]), 4)])

\* variant of sx127X_getLoRaLastPacketRSSI that adds SNR / 4 whatever its sign
sx127X_getLoRaLastPacketRSSI_alwaysCorrected(m) ==
  Bind(sx127X_getMode(m), LAMBDA a :
   Bind(sx127X_read_reg(a, SX127X_REG_PKT_RSSI_VALUE, <<m.fg>>), LAMBDA r :
    Bind(sx127X_read_reg(r, SX127X_REG_PKT_SNR_VALUE, <<m.fg>>), LAMBDA q :
     [q EXCEPT !.rv = (IF BitAnd(a.rv, 8) # 0 THEN -164 + r.buf[1]
                       ELSE -157 + r.buf[1])
                      + CDiv(S8(q.buf[1]), 4)])))

sx127X_getLoRaLastPacketRSSI(m) ==
  Bind(sx127X_getMode(m), LAMBDA a :
   Bind(sx127X_read_reg(a, SX127X_REG_PKT_RSSI_VALUE, <<m.fg>>), LAMBDA r :
    Bind(sx127X_read_reg(r, SX127X_REG_PKT_SNR_VALUE, <<m.fg>>), LAMBDA q :
     [q EXCEPT !.rv = (IF BitAnd(a.rv, 8) # 0 THEN -164 + r.buf[1]
                       ELSE -157 + r.buf[1])
                      + (IF S8(q.buf[1]) < 0 THEN CDiv(S8(q.buf[1]), 4)
                         ELSE 0)])))

\* variant of sx127X_setLoRaCRC that rewrites the whole register
sx127X_setLoRaCRC_whole(m, yesno) ==
  Bind(sx127X_read_reg(m, SX127X_REG_MODEM_CONFIG2, <<m.fg>>), LAMBDA r :
    sx127X_write_reg(r, SX127X_REG_MODEM_CONFIG2,
        <<IF yesno # 0 THEN 4 ELSE 0>>))

sx127X_setLoRaCRC(m, yesno) ==
  Bind(sx127X_read_reg(m, SX127X_REG_MODEM_CONFIG2, <<m.fg>>), LAMBDA r :
    sx127X_write_reg(r, SX127X_REG_MODEM_CONFIG2,
        <<IF yesno # 0 THEN BitOr(r.buf[1], 4) ELSE BitAnd(r.buf[1], 251)>>))

(* ------------------------------- state --------------------------------- *)
VARIABLES
  chip,      \* the chip: regs, fifo, rxbyte (where the next packet is stored)
  dev,       \* "unprobed", "ready" (loraspi_probe made the device), "absent"
  buf_lock,  \* holder of lrdata->buf_lock, NoProc when free
  pc,        \* where each caller is in its session operation
  loc,       \* locals of the operation in progress (of the lock's holder)
  done,      \* the call that has just returned, until its caller takes it
  rxcount,   \* packets the chip has delivered
  faults,    \* register transfers that have failed
  calls      \* configuration changes made

vars == <<chip, dev, buf_lock, pc, loc, done, rxcount, faults, calls>>

\* bytes an uninitialised local may hold after a failed read
Garbage == {0, 165, 255}
\* which transfer of a step fails (0: none), and what garbage is left: the
\* first transfer of a step (the mode or flag read), the fifth (the FIFO read
\* of a receive) or the sixth (the FIFO write of a transmit)
NoFault == {<<0, 0>>}
FaultAt == {1, 5, 6}
FaultPlans == NoFault \cup (FaultAt \X Garbage)
\* payload lengths of received packets, caller sizes of read, and caller
\* sizes of write with the count copy_from_user could not copy
PktLens == {10, 14}
RdSizes == {5, 20}
WrInputs == {<<0, 0>>, <<3, 0>>, <<3, 3>>}
\* the same with sizes beyond the session buffer
WrLongInputs ==
  WrInputs \cup {<<bufmaxlen, 0>>, <<bufmaxlen + 1, 0>>, <<bufmaxlen + 2, 1>>}
\* states the session layer passes to setstate
SetStates == {SX127X_SLEEP_MODE, SX127X_STANDBY_MODE, SX127X_TX_MODE}

\* i-th byte (from 0) of a received packet of length len, and of the
\* caller's write buffer
PktByte(len, i) == (16 * len + i) % 256
UserByte(i) == 48 + i

NoLoc ==
  [op |-> "none", size |-> 0, c |-> 0, c0 |-> 0, flag |-> 0, timeout |-> 0,
   polls |-> 0, log |-> <<>>, clears |-> <<>>, err |-> FALSE,
   tx_buflen |-> 0]

NoDone ==
  [op |-> "none", p |-> NoProc, ret |-> 0, out |-> <<>>, size |-> 0, c0 |-> 0,
   flag |-> 0, polls |-> 0, log |-> <<>>, clears |-> <<>>, err |-> FALSE,
   crc |-> FALSE, arg |-> <<>>, ub |-> FALSE]

\* power-up register file: the op-mode, modem-config-1 and version registers
\* are whatever the hardware starts with
PowerUp(opmode, mcf1, version) ==
  [regs |-> [r \in RegSet |->
       CASE r = SX127X_REG_OP_MODE -> opmode
         [] r = SX127X_REG_MODEM_CONFIG1 -> mcf1
         [] r = SX127X_REG_VERSION -> version
         [] r = SX127X_REG_FIFO_TX_BASE_ADDR -> 128
         [] r = SX127X_REG_PREAMBLE_LSB -> 8
         [] r = SX127X_REG_PAYLOAD_LENGTH -> 1
         [] r = SX127X_REG_RSSI_VALUE -> 40
         [] OTHER -> 0],
   fifo |-> [a \in {} |-> 0],
   rxbyte |-> 0]

Init ==
  /\ \E opmode \in {9, 139}, mcf1 \in {114, 115}, version \in {18, 0, 255} :
        chip = PowerUp(opmode, mcf1, version)
  /\ dev = "unprobed"
  /\ buf_lock = NoProc
  /\ pc = [p \in Procs |-> "idle"]
  /\ loc = NoLoc
  /\ done = NoDone
  /\ rxcount = 0
  /\ faults = 0
  /\ calls = 0

\* a step may use fault plan f only while the fault budget lasts
MayFail(f) == f[1] = 0 \/ faults < MaxFaults
Count(m) == IF m.err THEN 1 ELSE 0
\* no returned call is waiting for its caller
Taken == done.op = "none"
\* turns of the receive polling loop before which the chip may raise a flag:
\* the first two and the last one
EventTurns == {0, 1, RX_POLL_MAX - 1}
\* variant of NextTurn for a loop whose counter does not advance
NextTurn_stuck(t) == t

\* the turn the polling loop is at when the chip may act next, after turn t
\* found no flag: the turns in between find none either and are taken with t
NextTurn(t) ==
  IF t + 1 \in EventTurns \/ t + 1 >= RX_POLL_MAX THEN t + 1 ELSE RX_POLL_MAX - 1
\* the chip may act now
ChipTurn == Taken /\ (loc.op = "read" => loc.timeout \in EventTurns)

\* the caller takes the result of the call that returned
Collect ==
  /\ ~Taken
  /\ done' = NoDone
  /\ UNCHANGED <<calls, chip, dev, buf_lock, pc, loc, rxcount, faults>>

(* -------------------------------- probe -------------------------------- *)
\* loraspi_probe: init_sx127X, then the device is created
loraspi_probe(f) ==
  /\ dev = "unprobed" /\ Taken
  /\ MayFail(f)
  /\ \E m \in {init_sx127X(NewCall(chip, f[1], f[2]))} :
        /\ chip' = m.chip
        /\ dev' = IF m.rv < 0 THEN "absent" ELSE "ready"
        /\ faults' = faults + Count(m)
        /\ done' = [NoDone EXCEPT !.op = "probe", !.ret = m.rv, !.log = m.log,
                                  !.clears = m.clears, !.err = m.err]
  /\ UNCHANGED <<calls, buf_lock, pc, loc, rxcount>>

(* ------------------------------ the chip ------------------------------- *)
LoRaOn(ch) == ch.regs[SX127X_REG_OP_MODE] >= 128
ChipMode(ch) == ModeOf(ch.regs[SX127X_REG_OP_MODE])

\* the FIFO after a packet of len bytes is stored from address at
StorePacket(fifo, at, len) ==
  [x \in DOMAIN fifo \cup {(at + i) % 256 : i \in 0..(len - 1)} |->
     IF \E i \in 0..(len - 1) : x = (at + i) % 256
     THEN PktByte(len, (x - at) % 256)
     ELSE fifo[x]]

\* the chip receives a packet of len bytes, with a good or a bad CRC
ChipRxDone(len, bad) ==
  /\ ChipTurn
  /\ LoRaOn(chip) /\ ChipMode(chip) = SX127X_RXCONTINUOUS_MODE
  /\ rxcount < MaxRxPackets
  /\ chip' = [chip EXCEPT
        !.fifo = StorePacket(@, chip.rxbyte, len),
        !.rxbyte = (@ + len) % 256,
        !.regs[SX127X_REG_FIFO_RX_CURRENT_ADDR] = chip.rxbyte,
        !.regs[SX127X_REG_RX_NB_BYTES] = len,
        !.regs[SX127X_REG_IRQ_FLAGS] =
            BitOr(@, SX127X_FLAG_RXDONE + SX127X_FLAG_VALIDHEADER
                     + (IF bad THEN SX127X_FLAG_PAYLOADCRCERROR ELSE 0))]
  /\ rxcount' = rxcount + 1
  /\ UNCHANGED <<calls, dev, buf_lock, pc, loc, done, faults>>

\* the chip reports a receive timeout
ChipRxTimeout ==
  /\ ChipTurn
  /\ LoRaOn(chip) /\ ChipMode(chip) = SX127X_RXCONTINUOUS_MODE
  /\ BitAnd(chip.regs[SX127X_REG_IRQ_FLAGS], SX127X_FLAG_RXTIMEOUT) = 0
  /\ chip' = [chip EXCEPT !.regs[SX127X_REG_IRQ_FLAGS] =
                              BitOr(@, SX127X_FLAG_RXTIMEOUT)]
  /\ UNCHANGED <<calls, dev, buf_lock, pc, loc, done, rxcount, faults>>

\* the chip finishes a transmission: TXDone is raised, the mode falls back
\* to Standby
ChipTxDone ==
  /\ ChipTurn
  /\ LoRaOn(chip) /\ ChipMode(chip) = SX127X_TX_MODE
  /\ chip' = [chip EXCEPT
        !.regs[SX127X_REG_IRQ_FLAGS] = BitOr(@, SX127X_FLAG_TXDONE),
        !.regs[SX127X_REG_OP_MODE] = @ - SX127X_TX_MODE + SX127X_STANDBY_MODE]
  /\ UNCHANGED <<calls, dev, buf_lock, pc, loc, done, rxcount, faults>>

(* ----------------------------- loraspi_read ---------------------------- *)
RxFlags == SX127X_FLAG_RXTIMEOUT + SX127X_FLAG_RXDONE + SX127X_FLAG_PAYLOADCRCERROR

\* variant of ReadPrepare that prepares the chip whatever its state
ReadPrepare_always(m) ==
  Bind(sx127X_getState(m), LAMBDA a :
    Bind(sx127X_setState(a, SX127X_STANDBY_MODE), LAMBDA b :
     Bind(sx127X_write_reg(b, SX127X_REG_FIFO_RX_BASE_ADDR, <<0>>), LAMBDA c :
      Bind(sx127X_clearLoRaAllFlag(c), LAMBDA d :
       sx127X_setState(d, SX127X_RXCONTINUOUS_MODE)))))

\* lines 1026-1043: read the state, prepare the chip if it is not in
\* RXContinuous
ReadPrepare(m) ==
  Bind(sx127X_getState(m), LAMBDA a :
    IF a.rv # SX127X_RXCONTINUOUS_MODE
    THEN Bind(sx127X_setState(a, SX127X_STANDBY_MODE), LAMBDA b :
          Bind(sx127X_write_reg(b, SX127X_REG_FIFO_RX_BASE_ADDR, <<0>>), LAMBDA c :
           Bind(sx127X_clearLoRaAllFlag(c), LAMBDA d :
            sx127X_setState(d, SX127X_RXCONTINUOUS_MODE))))
    ELSE a)

\* lines 1024-1043
loraspi_read_enter(p, size, f) ==
  /\ dev = "ready" /\ pc[p] = "idle" /\ buf_lock = NoProc /\ Taken
  /\ MayFail(f)
  /\ \E m \in {ReadPrepare(NewCall(chip, f[1], f[2]))} :
        /\ chip' = m.chip
        /\ faults' = faults + Count(m)
        /\ loc' = [NoLoc EXCEPT !.op = "read", !.size = size, !.log = m.log,
                                !.clears = m.clears, !.err = m.err]
  /\ buf_lock' = p
  /\ pc' = [pc EXCEPT ![p] = "rd_poll"]
  /\ UNCHANGED <<calls, dev, done, rxcount>>

\* lines 1046-1055: a turn of the polling loop, msleep(20) ending it, and
\* with it the turns that follow until the chip may act again. The polls are
\* counted, not logged.
loraspi_read_poll(p, f) ==
  /\ pc[p] = "rd_poll"
  /\ MayFail(f)
  /\ \E m \in {sx127X_getLoRaFlag(NewCall(chip, f[1], f[2]), RxFlags)} :
        /\ chip' = m.chip
        /\ faults' = faults + Count(m)
        /\ loc' = [loc EXCEPT !.flag = m.rv,
                              !.timeout = IF m.rv = 0 THEN NextTurn(@) ELSE @,
                              !.polls = IF m.rv = 0 THEN @ + NextTurn(loc.timeout)
                                                         - loc.timeout
                                        ELSE @ + 1,
                              !.err = @ \/ m.err]
        /\ pc' = [pc EXCEPT ![p] =
                    IF m.rv = 0 /\ NextTurn(loc.timeout) < RX_POLL_MAX
                    THEN "rd_poll" ELSE "rd_finish"]
  /\ UNCHANGED <<calls, dev, buf_lock, done, rxcount>>

\* variant of ReadClassify in which the timeout is looked at before the CRC
ReadClassify_timeoutFirst(flag, crc) ==
  IF flag = 0 \/ BitAnd(flag, SX127X_FLAG_RXTIMEOUT) # 0 THEN -ENODATA
  ELSE IF crc # 0 THEN -EBADMSG
  ELSE 0

\* variant of ReadClassify in which RXDone outweighs RXTimeout
ReadClassify_doneFirst(flag, crc) ==
  IF crc # 0 THEN -EBADMSG
  ELSE IF flag = 0 \/ (BitAnd(flag, SX127X_FLAG_RXTIMEOUT) # 0
                        /\ BitAnd(flag, SX127X_FLAG_RXDONE) = 0) THEN -ENODATA
  ELSE 0

\* variant of ReadClassify that does not look for a loop that saw nothing
ReadClassify_noEmptyCheck(flag, crc) ==
  IF crc # 0 THEN -EBADMSG
  ELSE IF BitAnd(flag, SX127X_FLAG_RXTIMEOUT) # 0 THEN -ENODATA
  ELSE 0

\* lines 1057-1064: the result before any payload is read, from the flags the
\* loop left and the re-read CRC flag
ReadClassify(flag, crc) ==
  IF crc # 0 THEN -EBADMSG
  ELSE IF flag = 0 \/ BitAnd(flag, SX127X_FLAG_RXTIMEOUT) # 0 THEN -ENODATA
  ELSE 0

\* variant of ReadPayload that does not cap the size at bufmaxlen
ReadPayload_uncapped(m, size) ==
  Bind(sx127X_readLoRaData(m, size),
       LAMBDA b : [b EXCEPT !.buf = IF b.rv > 0 THEN SubSeq(@, 1, b.rv) ELSE <<>>])

\* lines 1066-1075: the payload goes through rx_buf to the caller; rv is the
\* return value, buf what copy_to_user delivered
ReadPayload(m, size) ==
  Bind(sx127X_readLoRaData(m, IF bufmaxlen < size THEN bufmaxlen ELSE size),
       LAMBDA b : [b EXCEPT !.buf = IF b.rv > 0 THEN SubSeq(@, 1, b.rv) ELSE <<>>])

\* variant of ReadFinish that returns without clearing the flags
ReadFinish_keepFlags(m, flag, size) ==
  Bind(sx127X_getLoRaFlag(m, SX127X_FLAG_PAYLOADCRCERROR), LAMBDA a :
    IF ReadClassify(flag, a.rv) = 0 THEN ReadPayload(a, size)
    ELSE [a EXCEPT !.rv = ReadClassify(flag, a.rv), !.buf = <<>>])

\* lines 1057-1082: classify, read the payload, clear the flags
ReadFinish(m, flag, size) ==
  Bind(sx127X_getLoRaFlag(m, SX127X_FLAG_PAYLOADCRCERROR), LAMBDA a :
   Bind(IF ReadClassify(flag, a.rv) = 0 THEN ReadPayload(a, size)
        ELSE [a EXCEPT !.rv = ReadClassify(flag, a.rv), !.buf = <<>>], LAMBDA b :
    Bind(sx127X_clearLoRaAllFlag(b), LAMBDA d :
      [d EXCEPT !.rv = b.rv, !.buf = b.buf])))

loraspi_read_finish(p, f) ==
  /\ pc[p] = "rd_finish"
  /\ MayFail(f)
  /\ \E m \in {ReadFinish(NewCall(chip, f[1], f[2]), loc.flag, loc.size)} :
        /\ chip' = m.chip
        /\ faults' = faults + Count(m)
        /\ done' = [NoDone EXCEPT
              !.op = "read", !.p = p, !.ret = m.rv, !.out = m.buf,
              !.size = loc.size, !.flag = loc.flag, !.polls = loc.polls,
              !.log = loc.log \o m.log, !.clears = loc.clears \o m.clears,
              !.err = loc.err \/ m.err,
              !.crc = BitAnd(chip.regs[SX127X_REG_IRQ_FLAGS],
                             SX127X_FLAG_PAYLOADCRCERROR) # 0]
  /\ buf_lock' = NoProc
  /\ pc' = [pc EXCEPT ![p] = "idle"]
  /\ loc' = NoLoc
  /\ UNCHANGED <<calls, dev, rxcount>>

(* ---------------------------- loraspi_write ---------------------------- *)
\* tx_buf after memset and copy_from_user of size bytes of which status were
\* not copied; the copy is not limited to the bufmaxlen bytes of the buffer,
\* and the positions after bufmaxlen are the memory that follows it
TxBuf(size, status) ==
  [i \in 1..(IF size - status > bufmaxlen THEN size - status ELSE bufmaxlen) |->
     IF i <= size - status THEN UserByte(i - 1) ELSE 0]

\* outcomes of a copy that runs past the end of tx_buf: the bytes land in the
\* memory that follows and the call goes on (FALSE), or the kernel's usercopy
\* check stops the caller inside the call (TRUE)
CopyTraps(size, status) ==
  IF size - status > bufmaxlen THEN BOOLEAN ELSE {FALSE}

\* variant of WriteGo whose wait budget is one tick longer
WriteGo_extraTick(m, c) ==
  IF c > 0
  THEN Bind(sx127X_setState(m, SX127X_TX_MODE), LAMBDA e :
        Bind(sx127X_getLoRaPreambleLen(e), LAMBDA g :
          [g EXCEPT !.status = (c + g.rv + 1) + 3, !.rv = c]))
  ELSE [m EXCEPT !.status = 0, !.rv = c]

\* lines 1130-1136: with c > 0 bytes in the FIFO, go to TX and compute the
\* wait budget (left in status)
WriteGo(m, c) ==
  IF c > 0
  THEN Bind(sx127X_setState(m, SX127X_TX_MODE), LAMBDA e :
        Bind(sx127X_getLoRaPreambleLen(e), LAMBDA g :
          [g EXCEPT !.status = (c + g.rv + 1) + 2, !.rv = c]))
  ELSE [m EXCEPT !.status = 0, !.rv = c]

\* variant of WriteStart that does not clear TXDone
WriteStart_noClear(m, tx_buf, tx_buflen) ==
  Bind(sx127X_setState(m, SX127X_STANDBY_MODE), LAMBDA a :
   Bind(sx127X_write_reg(a, SX127X_REG_FIFO_TX_BASE_ADDR, <<TX_BASE_ADR>>), LAMBDA b :
    Bind(sx127X_sendLoRaData(b, tx_buf, tx_buflen), LAMBDA s :
      WriteGo(s, s.rv))))

\* lines 1115-1136: Standby, TX base, fill the FIFO, clear TXDone, go
WriteStart(m, tx_buf, tx_buflen) ==
  Bind(sx127X_setState(m, SX127X_STANDBY_MODE), LAMBDA a :
   Bind(sx127X_write_reg(a, SX127X_REG_FIFO_TX_BASE_ADDR, <<TX_BASE_ADR>>), LAMBDA b :
    Bind(sx127X_sendLoRaData(b, tx_buf, tx_buflen), LAMBDA s :
     Bind(sx127X_clearLoRaFlag(s, SX127X_FLAG_TXDONE), LAMBDA d :
       WriteGo(d, s.rv)))))

\* lines 1106-1136
loraspi_write_enter(p, size, status, f) ==
  /\ dev = "ready" /\ pc[p] = "idle" /\ buf_lock = NoProc /\ Taken
  /\ MayFail(f)
  /\ buf_lock' = p
  /\ IF status >= size
     THEN \* line 1110: return 0
          /\ done' = [NoDone EXCEPT !.op = "write", !.p = p, !.ret = 0,
                                    !.size = size]
          /\ UNCHANGED <<calls, chip, dev, pc, loc, rxcount, faults>>
     ELSE \E trap \in CopyTraps(size, status) :
          \E m \in {WriteStart(NewCall(chip, f[1], f[2]),
                               TxBuf(size, status), size - status)} :
             IF trap
             THEN \* the caller dies at line 1108 with the lock held
                  /\ pc' = [pc EXCEPT ![p] = "oops"]
                  /\ UNCHANGED <<calls, chip, dev, loc, done, rxcount, faults>>
             ELSE /\ chip' = m.chip
                  /\ faults' = faults + Count(m)
                  /\ loc' = [NoLoc EXCEPT !.op = "write", !.size = size,
                               !.c = m.rv, !.c0 = m.rv, !.timeout = m.status,
                               !.log = m.log, !.clears = m.clears,
                               !.err = m.err, !.tx_buflen = size - status]
                  /\ pc' = [pc EXCEPT ![p] =
                              IF m.rv > 0 /\ m.status > 0 THEN "wr_poll"
                              ELSE "wr_finish"]
                  /\ UNCHANGED <<calls, dev, done, rxcount>>

\* lines 1139-1153: one turn of the TXDone polling loop
loraspi_write_poll(p, f) ==
  /\ pc[p] = "wr_poll"
  /\ MayFail(f)
  /\ \E m \in {sx127X_getLoRaFlag(NewCall(chip, f[1], f[2]), SX127X_FLAG_TXDONE)} :
        /\ chip' = m.chip
        /\ faults' = faults + Count(m)
        /\ loc' = [loc EXCEPT
              !.flag = m.rv,
              !.c = IF m.rv = 0 /\ loc.timeout = 1 THEN 0 ELSE @,
              !.timeout = IF m.rv # 0 THEN @ ELSE @ - 1,
              !.polls = @ + 1, !.err = @ \/ m.err]
        /\ pc' = [pc EXCEPT ![p] =
                    IF m.rv = 0 /\ loc.timeout > 1 THEN "wr_poll"
                    ELSE "wr_finish"]
  /\ UNCHANGED <<calls, dev, buf_lock, done, rxcount>>

\* lines 1156-1159: back to RXContinuous through Standby
WriteFinish(m) ==
  Bind(sx127X_setState(m, SX127X_STANDBY_MODE), LAMBDA a :
    sx127X_setState(a, SX127X_RXCONTINUOUS_MODE))

\* lines 1156-1165
loraspi_write_finish(p, f) ==
  /\ pc[p] = "wr_finish"
  /\ MayFail(f)
  /\ \E m \in {WriteFinish(NewCall(chip, f[1], f[2]))} :
        /\ chip' = m.chip
        /\ faults' = faults + Count(m)
        /\ done' = [NoDone EXCEPT
              !.op = "write", !.p = p, !.ret = loc.c, !.size = loc.size,
              !.c0 = loc.c0, !.flag = loc.flag, !.polls = loc.polls,
              !.log = loc.log \o m.log, !.clears = loc.clears \o m.clears,
              !.err = loc.err \/ m.err]
  /\ buf_lock' = NoProc
  /\ pc' = [pc EXCEPT ![p] = "idle"]
  /\ loc' = NoLoc
  /\ UNCHANGED <<calls, dev, rxcount>>

(* ------------------------ setstate and getrssi ------------------------- *)
loraspi_setstate(p, st, f) ==
  /\ dev = "ready" /\ pc[p] = "idle" /\ buf_lock = NoProc /\ Taken
  /\ MayFail(f)
  /\ \E m \in {sx127X_setState(NewCall(chip, f[1], f[2]), st)} :
        /\ chip' = m.chip
        /\ faults' = faults + Count(m)
        /\ done' = [NoDone EXCEPT !.op = "setstate", !.p = p, !.ret = 0,
                                  !.arg = <<st>>, !.log = m.log,
                                  !.err = m.err]
  /\ UNCHANGED <<calls, dev, buf_lock, pc, loc, rxcount>>

loraspi_getrssi(p, f) ==
  /\ dev = "ready" /\ pc[p] = "idle" /\ buf_lock = NoProc /\ Taken
  /\ MayFail(f)
  /\ \E m \in {sx127X_getLoRaRSSI(NewCall(chip, f[1], f[2]))} :
        /\ chip' = m.chip
        /\ faults' = faults + Count(m)
        /\ done' = [NoDone EXCEPT !.op = "getrssi", !.p = p, !.ret = 0,
                                  !.out = <<m.rv>>, !.log = m.log,
                                  !.err = m.err]
  /\ UNCHANGED <<calls, dev, buf_lock, pc, loc, rxcount>>

(* ------------------------- configuration calls ------------------------- *)
\* arguments the configuration functions are called with
PowerIn == -2..20
LnaIn == {-50, -48, -47, -30, -26, -25, -24, -13, -12, -6, -5, 0, 3}
SprIn == {64, 128, 256, 512, 1024, 2048, 4096, 0, 63, 100, 2049}
BwIn == {hz[i] : i \in 1..10} \cup {0, 7801, 125001, 499999, 500001, 1000000}
CrIn == {69, 70, 71, 72}
SymbolsIn == {0, 1, 255, 256, 1023, 1024, 70000}
MsIn == {0, 1, 50, 1000, 8590, 70000}
FreqIn == {0, 61, 62, 433000000, 433001770, 868100000, 915000000, 1023999999}
\* arguments of the ioctl calls that limit their argument
DbmIn == {-3, 10, 18}
DbIn == {-50, -7, 3}

\* the chip as an earlier use of it may have left it: modem-config-1,
\* modem-config-2 and LNA hold a bandwidth index of at most 9, a spreading
\* factor of 7 or 12 and a gain field of 1, 0 or 6
InitConfig ==
  /\ \E mcf1 \in {114, 115, 148, 8}, mcf2 \in {112, 199}, lna \in {32, 3, 192},
        version \in {18, 0, 255} :
        chip = [PowerUp(9, mcf1, version) EXCEPT
                  !.regs[SX127X_REG_MODEM_CONFIG2] = mcf2,
                  !.regs[SX127X_REG_LNA] = lna]
  /\ dev = "unprobed"
  /\ buf_lock = NoProc
  /\ pc = [p \in Procs |-> "idle"]
  /\ loc = NoLoc
  /\ done = NoDone
  /\ rxcount = 0
  /\ faults = 0
  /\ calls = 0

\* a configuration function may be called
ConfigReady ==
  /\ dev = "ready" /\ buf_lock = NoProc /\ Taken
  /\ calls < MaxCalls

\* a configuration function, called with arg, has run as m records
ConfigCall(name, arg, m) ==
  /\ chip' = m.chip
  /\ calls' = calls + 1
  /\ done' = [NoDone EXCEPT !.op = name, !.arg = arg, !.ret = m.rv,
                            !.log = m.log, !.err = m.err, !.ub = m.ub]
  /\ UNCHANGED <<dev, buf_lock, pc, loc, rxcount, faults>>

setLoRaFreq(fr) ==
  /\ ConfigReady
  /\ \E m \in {sx127X_setLoRaFreq(NewCall(chip, 0, 0), fr)} :
        ConfigCall("setLoRaFreq", <<fr>>, m)

getLoRaFreq ==
  /\ ConfigReady
  /\ \E m \in {sx127X_getLoRaFreq(NewCall(chip, 0, 0))} :
        ConfigCall("getLoRaFreq", <<>>, m)

setLoRaPower(pout) ==
  /\ ConfigReady
  /\ \E m \in {sx127X_setLoRaPower(NewCall(chip, 0, 0), pout)} :
        ConfigCall("setLoRaPower", <<pout>>, m)

getLoRaPower ==
  /\ ConfigReady
  /\ \E m \in {sx127X_getLoRaPower(NewCall(chip, 0, 0))} :
        ConfigCall("getLoRaPower", <<>>, m)

setLoRaLNA(db) ==
  /\ ConfigReady
  /\ \E m \in {sx127X_setLoRaLNA(NewCall(chip, 0, 0), db)} :
        ConfigCall("setLoRaLNA", <<db>>, m)

\* g is what an out-of-range read of lna_gain finds
getLoRaLNA(g) ==
  /\ ConfigReady
  /\ \E m \in {sx127X_getLoRaLNA(NewCall(chip, 0, g))} :
        ConfigCall("getLoRaLNA", <<>>, m)

setLoRaSPRFactor(c_s) ==
  /\ ConfigReady
  /\ \E m \in {sx127X_setLoRaSPRFactor(NewCall(chip, 0, 0), c_s)} :
        ConfigCall("setLoRaSPRFactor", <<c_s>>, m)

getLoRaSPRFactor ==
  /\ ConfigReady
  /\ \E m \in {sx127X_getLoRaSPRFactor(NewCall(chip, 0, 0))} :
        ConfigCall("getLoRaSPRFactor", <<>>, m)

setLoRaBW(bw) ==
  /\ ConfigReady
  /\ \E m \in {sx127X_setLoRaBW(NewCall(chip, 0, 0), bw)} :
        ConfigCall("setLoRaBW", <<bw>>, m)

\* g: what a read beyond the table finds
getLoRaBW(g) ==
  /\ ConfigReady
  /\ \E m \in {sx127X_getLoRaBW(NewCall(chip, 0, g))} :
        ConfigCall("getLoRaBW", <<>>, m)

setLoRaCR(cr) ==
  /\ ConfigReady
  /\ \E m \in {sx127X_setLoRaCR(NewCall(chip, 0, 0), cr)} :
        ConfigCall("setLoRaCR", <<cr>>, m)

getLoRaCR ==
  /\ ConfigReady
  /\ \E m \in {sx127X_getLoRaCR(NewCall(chip, 0, 0))} :
        ConfigCall("getLoRaCR", <<>>, m)

setLoRaRXByteTimeout(n) ==
  /\ ConfigReady
  /\ \E m \in {sx127X_setLoRaRXByteTimeout(NewCall(chip, 0, 0), n)} :
        ConfigCall("setLoRaRXByteTimeout", <<n>>, m)

getLoRaRXByteTimeout ==
  /\ ConfigReady
  /\ \E m \in {sx127X_getLoRaRXByteTimeout(NewCall(chip, 0, 0))} :
        ConfigCall("getLoRaRXByteTimeout", <<>>, m)

setLoRaRXTimeout(ms, g) ==
  /\ ConfigReady
  /\ \E m \in {sx127X_setLoRaRXTimeout(NewCall(chip, 0, g), ms)} :
        ConfigCall("setLoRaRXTimeout", <<ms>>, m)

getLoRaRXTimeout ==
  /\ ConfigReady
  /\ \E m \in {sx127X_getLoRaRXTimeout(NewCall(chip, 0, 0))} :
        ConfigCall("getLoRaRXTimeout", <<>>, m)

setLoRaImplicit(yesno) ==
  /\ ConfigReady
  /\ \E m \in {sx127X_setLoRaImplicit(NewCall(chip, 0, 0), yesno)} :
        ConfigCall("setLoRaImplicit", <<yesno>>, m)

setLoRaCRC(yesno) ==
  /\ ConfigReady
  /\ \E m \in {sx127X_setLoRaCRC(NewCall(chip, 0, 0), yesno)} :
        ConfigCall("setLoRaCRC", <<yesno>>, m)

\* the ioctl calls; each returns 0
IoctlCall(name, arg, m) ==
  ConfigCall(name, arg, [m EXCEPT !.rv = 0])

\* lines 1318-1331: dbm limited to LORA_MIN_POWER .. LORA_MAX_POWER
loraspi_setpower(dbm) ==
  /\ ConfigReady
  /\ \E m \in {sx127X_setLoRaPower(NewCall(chip, 0, 0),
                  IF dbm > 17 THEN 17 ELSE IF dbm < -2 THEN -2 ELSE dbm)} :
        IoctlCall("loraspi_setpower", <<dbm>>, m)

\* lines 1374-1387: db limited to LORA_MIN_LNA .. LORA_MAX_LNA
loraspi_setLNA(db) ==
  /\ ConfigReady
  /\ \E m \in {sx127X_setLoRaLNA(NewCall(chip, 0, 0),
                  IF db > 0 THEN 0 ELSE IF db < -48 THEN -48 ELSE db)} :
        IoctlCall("loraspi_setLNA", <<db>>, m)

loraspi_setsprfactor(sprf) ==
  /\ ConfigReady
  /\ \E m \in {sx127X_setLoRaSPRFactor(NewCall(chip, 0, 0), sprf)} :
        IoctlCall("loraspi_setsprfactor", <<sprf>>, m)

(* ---------------------------- signal quality --------------------------- *)
\* bytes the chip reports in its SNR register, and in its RSSI registers
SnrIn == {0, 1, 3, 4, 5, 127, 128, 129, 251, 252, 253, 255}
RssiIn == {0, 40, 255}

\* before loraspi_probe, on a chip that has received a packet: either
\* frequency port, any SNR and RSSI
InitSignal ==
  /\ \E opmode \in {9, 1}, snr \in SnrIn, rssi \in RssiIn :
        chip = [PowerUp(opmode, 114, 18) EXCEPT
                  !.regs[SX127X_REG_PKT_SNR_VALUE] = snr,
                  !.regs[SX127X_REG_PKT_RSSI_VALUE] = rssi,
                  !.regs[SX127X_REG_RSSI_VALUE] = 255 - rssi]
  /\ dev = "unprobed"
  /\ buf_lock = NoProc
  /\ pc = [p \in Procs |-> "idle"]
  /\ loc = NoLoc
  /\ done = NoDone
  /\ rxcount = 0
  /\ faults = 0
  /\ calls = 0

getLoRaLastPacketSNR ==
  /\ ConfigReady
  /\ \E m \in {sx127X_getLoRaLastPacketSNR(NewCall(chip, 0, 0))} :
        ConfigCall("getLoRaLastPacketSNR", <<>>, m)

getLoRaLastPacketRSSI ==
  /\ ConfigReady
  /\ \E m \in {sx127X_getLoRaLastPacketRSSI(NewCall(chip, 0, 0))} :
        ConfigCall("getLoRaLastPacketRSSI", <<>>, m)

getLoRaRSSI ==
  /\ ConfigReady
  /\ \E m \in {sx127X_getLoRaRSSI(NewCall(chip, 0, 0))} :
        ConfigCall("getLoRaRSSI", <<>>, m)

(* ------------------ the lock around the ioctl handlers ----------------- *)
\* handlers of the form mutex_lock, one register function, mutex_unlock
LockedCalls == {"getstate", "getsnr", "setbandwidth"}

\* mutex_lock of such a handler: the caller waits until buf_lock is free
loraspi_ioctl_lock(p, name) ==
  /\ dev = "ready" /\ pc[p] = "idle" /\ Taken
  /\ buf_lock = NoProc
  /\ buf_lock' = p
  /\ pc' = [pc EXCEPT ![p] = name]
  /\ UNCHANGED <<calls, chip, dev, loc, done, rxcount, faults>>

\* the register function each handler calls
IoctlBody(name, m) ==
  CASE name = "getstate" -> sx127X_getState(m)
    [] name = "getsnr" -> sx127X_getLoRaLastPacketSNR(m)
    [] name = "setbandwidth" -> sx127X_setLoRaBW(m, 125000)

\* the register function, mutex_unlock, return 0
loraspi_ioctl_run(p) ==
  /\ pc[p] \in LockedCalls
  /\ \E m \in {IoctlBody(pc[p], NewCall(chip, 0, 0))} :
        /\ chip' = m.chip
        /\ done' = [NoDone EXCEPT !.op = pc[p], !.p = p, !.ret = 0,
                                  !.out = <<m.rv>>, !.log = m.log]
  /\ buf_lock' = NoProc
  /\ pc' = [pc EXCEPT ![p] = "idle"]
  /\ UNCHANGED <<calls, dev, loc, rxcount, faults>>

\* loraspi_ready2read, line 1621: mutex_is_locked found the lock free (found
\* taken, the call returns 0 and nothing changes)
loraspi_ready2read_check(p) ==
  /\ dev = "ready" /\ pc[p] = "idle" /\ Taken
  /\ buf_lock = NoProc
  /\ pc' = [pc EXCEPT ![p] = "r2r_lock"]
  /\ UNCHANGED <<calls, chip, dev, buf_lock, loc, done, rxcount, faults>>

\* variant of loraspi_ready2read_lock that goes on without the lock
loraspi_ready2read_nolock(p) ==
  /\ pc[p] = "r2r_lock"
  /\ pc' = [pc EXCEPT ![p] = "r2r_flag"]
  /\ UNCHANGED <<calls, chip, dev, buf_lock, loc, done, rxcount, faults>>

\* line 1623: mutex_lock, which another caller may have taken meanwhile
loraspi_ready2read_lock(p) ==
  /\ pc[p] = "r2r_lock"
  /\ buf_lock = NoProc
  /\ buf_lock' = p
  /\ pc' = [pc EXCEPT ![p] = "r2r_flag"]
  /\ UNCHANGED <<calls, chip, dev, loc, done, rxcount, faults>>

\* lines 1624-1628: the RXDone flag, mutex_unlock, return
loraspi_ready2read_flag(p) ==
  /\ pc[p] = "r2r_flag"
  /\ \E m \in {sx127X_getLoRaFlag(NewCall(chip, 0, 0), SX127X_FLAG_RXDONE)} :
        /\ chip' = m.chip
        /\ done' = [NoDone EXCEPT !.op = "ready2read", !.p = p,
                                  !.ret = IF m.rv # 0 THEN 1 ELSE 0,
                                  !.log = m.log]
  /\ buf_lock' = NoProc
  /\ pc' = [pc EXCEPT ![p] = "idle"]
  /\ UNCHANGED <<calls, dev, loc, rxcount, faults>>

(* --------------------------- the specifications ------------------------ *)
\* the steps of the driver and of the chip, for the callers PS, the transport
\* failing as FP allows
Step(FP, PS) ==
  \/ \E f \in FP : loraspi_probe(f)
  \/ Collect
  \/ \E len \in PktLens, bad \in BOOLEAN : ChipRxDone(len, bad)
  \/ ChipRxTimeout
  \/ ChipTxDone
  \/ \E p \in PS, size \in RdSizes, f \in FP : loraspi_read_enter(p, size, f)
  \/ \E p \in PS, f \in FP : loraspi_read_poll(p, f)
  \/ \E p \in PS, f \in FP : loraspi_read_finish(p, f)
  \/ \E p \in PS, w \in WrInputs, f \in FP :
        loraspi_write_enter(p, w[1], w[2], f)
  \/ \E p \in PS, f \in FP : loraspi_write_poll(p, f)
  \/ \E p \in PS, f \in FP : loraspi_write_finish(p, f)
  \/ \E p \in PS, st \in SetStates, f \in FP : loraspi_setstate(p, st, f)
  \/ \E p \in PS, f \in FP : loraspi_getrssi(p, f)

\* the transport never fails
Next == Step(NoFault, Procs)
Spec == Init /\ [][Next]_vars

\* the transport may fail; one caller
NextFault == Step(FaultPlans, {1})
SpecFault == Init /\ [][NextFault]_vars

\* two callers of read, write and the handlers that take the lock step by
\* step; the transport never fails
NextLock ==
  \/ loraspi_probe(<<0, 0>>)
  \/ Collect
  \/ ChipRxDone(10, FALSE)
  \/ ChipTxDone
  \/ \E q \in Procs : loraspi_read_enter(q, 20, <<0, 0>>)
  \/ \E q \in Procs : loraspi_read_poll(q, <<0, 0>>)
  \/ \E q \in Procs : loraspi_read_finish(q, <<0, 0>>)
  \/ \E q \in Procs, w \in WrInputs : loraspi_write_enter(q, w[1], w[2], <<0, 0>>)
  \/ \E q \in Procs : loraspi_write_poll(q, <<0, 0>>)
  \/ \E q \in Procs : loraspi_write_finish(q, <<0, 0>>)
  \/ \E q \in Procs, name \in LockedCalls : loraspi_ioctl_lock(q, name)
  \/ \E q \in Procs : loraspi_ioctl_run(q)
  \/ \E q \in Procs : loraspi_ready2read_check(q)
  \/ \E q \in Procs : loraspi_ready2read_lock(q)
  \/ \E q \in Procs : loraspi_ready2read_flag(q)
SpecLock == Init /\ [][NextLock]_vars

\* one caller of loraspi_write with sizes up to and beyond the session
\* buffer; the transport never fails
NextWrite ==
  \/ loraspi_probe(<<0, 0>>)
  \/ Collect
  \/ ChipTxDone
  \/ \E w \in WrLongInputs : loraspi_write_enter(1, w[1], w[2], <<0, 0>>)
  \/ loraspi_write_poll(1, <<0, 0>>)
  \/ loraspi_write_finish(1, <<0, 0>>)
SpecWrite == Init /\ [][NextWrite]_vars

\* one caller, the transport never failing; a caller inside loraspi_read
\* keeps running: msleep returns and the loop goes on
NextLive == Step(NoFault, {1})
ReadRuns ==
  \E f \in NoFault : loraspi_read_poll(1, f) \/ loraspi_read_finish(1, f)
SpecLive == Init /\ [][NextLive]_vars /\ WF_vars(ReadRuns)

\* probe, then configuration calls; only the version read of the probe may
\* fail
NextConfig ==
  \/ \E f \in NoFault \cup ({1} \X Garbage) : loraspi_probe(f)
  \/ Collect
  \/ \E fr \in FreqIn : setLoRaFreq(fr)
  \/ getLoRaFreq
  \/ \E pout \in PowerIn : setLoRaPower(pout)
  \/ getLoRaPower
  \/ \E db \in LnaIn : setLoRaLNA(db)
  \/ \E g \in Garbage : getLoRaLNA(g)
  \/ \E c_s \in SprIn : setLoRaSPRFactor(c_s)
  \/ getLoRaSPRFactor
  \/ \E bw \in BwIn : setLoRaBW(bw)
  \/ \E g \in Garbage : getLoRaBW(g)
  \/ \E cr \in CrIn : setLoRaCR(cr)
  \/ getLoRaCR
  \/ \E n \in SymbolsIn : setLoRaRXByteTimeout(n)
  \/ getLoRaRXByteTimeout
  \/ \E ms \in MsIn, g \in Garbage : setLoRaRXTimeout(ms, g)
  \/ getLoRaRXTimeout
  \/ \E dbm \in DbmIn : loraspi_setpower(dbm)
  \/ \E db \in DbIn : loraspi_setLNA(db)
  \/ \E sprf \in SprIn : loraspi_setsprfactor(sprf)
  \/ \E yesno \in {0, 1} : setLoRaImplicit(yesno)
  \/ \E yesno \in {0, 1} : setLoRaCRC(yesno)
SpecConfig == InitConfig /\ [][NextConfig]_vars

\* the bandwidth functions on a chip whose modem-config-1 register holds any
\* bandwidth field when the driver finds it: loraspi_probe neither resets the
\* chip nor writes the register
Mcf1Left == {16 * i + 2 : i \in 0..15}

InitBandwidth ==
  /\ \E mcf1 \in Mcf1Left :
        chip = [PowerUp(9, mcf1, 18) EXCEPT !.regs[SX127X_REG_MODEM_CONFIG2] = 112]
  /\ dev = "unprobed"
  /\ buf_lock = NoProc
  /\ pc = [p \in Procs |-> "idle"]
  /\ loc = NoLoc
  /\ done = NoDone
  /\ rxcount = 0
  /\ faults = 0
  /\ calls = 0

NextBandwidth ==
  \/ loraspi_probe(<<0, 0>>)
  \/ Collect
  \/ \E bw \in BwIn : setLoRaBW(bw)
  \/ \E g \in Garbage : getLoRaBW(g)
  \/ \E cr \in CrIn : setLoRaCR(cr)
  \/ \E ms \in {50, 1000}, g \in Garbage : setLoRaRXTimeout(ms, g)
SpecBandwidth == InitBandwidth /\ [][NextBandwidth]_vars

\* probe, then the signal-quality functions
NextSignal ==
  \/ loraspi_probe(<<0, 0>>)
  \/ Collect
  \/ getLoRaLastPacketSNR
  \/ getLoRaLastPacketRSSI
  \/ getLoRaRSSI
SpecSignal == InitSignal /\ [][NextSignal]_vars

(* ------------------------------ properties ----------------------------- *)
\* a logged transfer that is a register write
IsWrite(e) == e.kind = "w"
\* a receive call has returned on its success path: the loop saw RXDone and no
\* RXTimeout, and the CRC-error flag was not set
ReadSucceeded ==
  /\ done.op = "read"
  /\ BitAnd(done.flag, SX127X_FLAG_RXDONE) # 0
  /\ BitAnd(done.flag, SX127X_FLAG_RXTIMEOUT) = 0
  /\ ~done.crc

\* C1: whenever a loraspi_read or loraspi_write call has returned, buf_lock is
\* free.
C1_LockFreeAfterReturn ==
  done.op \in {"read", "write"} => buf_lock = NoProc

\* C2: every sx127X_clearLoRaFlag(mask) call leaves set each IRQ flag that was
\* set before it and is not in mask.
C2_ClearsOnlyMask ==
  \A i \in 1..Len(done.clears) :
    done.clears[i].ok =>
      BitAnd(done.clears[i].after, 255 - done.clears[i].mask)
        = BitAnd(done.clears[i].before, 255 - done.clears[i].mask)

\* C3: every loraspi_write call ends by writing mode Standby and then mode
\* RXContinuous, and the mode field is RXContinuous when it returns.
C3_WriteEndsInRxContinuous ==
  done.op = "write" =>
    /\ ChipMode(chip) = SX127X_RXCONTINUOUS_MODE
    /\ Len(SelectSeq(done.log, IsWrite)) >= 2
    /\ \E W \in {SelectSeq(done.log, IsWrite)} :
          /\ W[Len(W) - 1].adr = SX127X_REG_OP_MODE
          /\ ModeOf(W[Len(W) - 1].data[1]) = SX127X_STANDBY_MODE
          /\ W[Len(W)].adr = SX127X_REG_OP_MODE
          /\ ModeOf(W[Len(W)].data[1]) = SX127X_RXCONTINUOUS_MODE

\* C4: a loraspi_write that put c > 0 bytes in the FIFO polls TXDone at most
\* c + preamble length + 3 times; it returns 0 if TXDone was never seen set
\* within that budget, and c if it was.
C4_TxDonePollBudget ==
  (done.op = "write" /\ done.c0 > 0) =>
    \E budget \in {done.c0 + chip.regs[SX127X_REG_PREAMBLE_MSB] * 256
                            + chip.regs[SX127X_REG_PREAMBLE_LSB] + 3} :
       /\ done.polls >= 1 /\ done.polls <= budget
       /\ done.flag = 0 => (done.ret = 0 /\ done.polls = budget)
       /\ done.flag # 0 => done.ret = done.c0

\* C4, its case: TXDone never came, the whole budget was used, 0 is returned
C4_Witness ==
  /\ done.op = "write" /\ done.c0 > 0 /\ done.flag = 0 /\ done.ret = 0
  /\ done.polls = done.c0 + chip.regs[SX127X_REG_PREAMBLE_MSB] * 256
                          + chip.regs[SX127X_REG_PREAMBLE_LSB] + 3

\* C5: a loraspi_read that finds the PayloadCRCError flag set returns -EBADMSG,
\* whatever else was observed, and transfers nothing from the FIFO.
C5_CrcErrorIsMalformed ==
  (done.op = "read" /\ done.crc) =>
    /\ done.ret = -EBADMSG
    /\ done.out = <<>>
    /\ \A i \in 1..Len(done.log) : done.log[i].adr # SX127X_REG_FIFO

\* C5, its case: RXTimeout and the CRC error are both set, the CRC error wins
C5_Witness ==
  /\ done.op = "read" /\ done.crc
  /\ BitAnd(done.flag, SX127X_FLAG_RXTIMEOUT) # 0
  /\ done.ret = -EBADMSG

\* C6: a loraspi_read whose 250 polls saw no flag, or whose observed flags
\* include RXTimeout, returns -ENODATA when the CRC-error flag is not set, and
\* reads no byte from the FIFO register.
C6_NoDataOnTimeout ==
  (/\ done.op = "read" /\ ~done.crc
   /\ (done.flag = 0 \/ BitAnd(done.flag, SX127X_FLAG_RXTIMEOUT) # 0)) =>
    /\ done.ret = -ENODATA
    /\ done.out = <<>>
    /\ done.flag = 0 => done.polls = RX_POLL_MAX
    /\ \A i \in 1..Len(done.log) : done.log[i].adr # SX127X_REG_FIFO

\* C6, its case: 250 polls, no flag seen
C6_Witness ==
  /\ done.op = "read" /\ ~done.crc /\ done.flag = 0
  /\ done.polls = RX_POLL_MAX /\ done.ret = -ENODATA

\* C7 as stated: on the success path loraspi_read returns
\* min(reported packet length, destination capacity).
C7_ReturnsMinOfLengthAndSize ==
  ReadSucceeded =>
    done.ret = Min(done.log[Len(done.log) - 3].data[1], done.size)

\* C7 amended: on the success path the FIFO pointer is set to the last
\* packet's start address, min(reported packet length, destination capacity,
\* bufmaxlen) bytes are read from the FIFO register in one transfer, these are
\* the bytes the FIFO holds from that address on, and their count is returned.
C7_ReturnsMinOfLengthSizeAndBuffer ==
  ReadSucceeded =>
    \E n \in {Len(done.log)} :
      /\ n >= 7
      /\ done.log[n - 5].kind = "r"
      /\ done.log[n - 5].adr = SX127X_REG_FIFO_RX_CURRENT_ADDR
      /\ done.log[n - 4].kind = "w"
      /\ done.log[n - 4].adr = SX127X_REG_FIFO_ADDR_PTR
      /\ done.log[n - 4].data = done.log[n - 5].data
      /\ done.log[n - 3].kind = "r"
      /\ done.log[n - 3].adr = SX127X_REG_RX_NB_BYTES
      /\ done.log[n - 2].kind = "r"
      /\ done.log[n - 2].adr = SX127X_REG_FIFO
      /\ \A i \in 1..n : done.log[i].adr = SX127X_REG_FIFO => i = n - 2
      /\ done.ret = Min(done.log[n - 3].data[1], Min(done.size, bufmaxlen))
      /\ done.out = done.log[n - 2].data
      /\ Len(done.out) = done.ret
      /\ \A i \in 1..done.ret :
            done.out[i] = FifoAt(chip.fifo, (done.log[n - 5].data[1] + i - 1) % 256)

\* C7, its case: a 10-byte packet read into a 20-byte destination
C7_Witness ==
  /\ ReadSucceeded
  /\ done.size = 20
  /\ done.log[Len(done.log) - 3].data[1] = 10
  /\ done.ret = 10
  /\ done.out = [i \in 1..10 |-> PktByte(10, i - 1)]

C9_TransportErrorReturned ==
  (done.op \in {"read", "write", "getrssi"} /\ done.err) => done.ret = -EIO

\* C10: when the version probe succeeds the writes of init_sx127X are, in
\* order: mode Sleep; the LoRa-select bit, written while the mode field is
\* Sleep; mode Standby; explicit header; FIFO RX base 0; FIFO pointer 0; all
\* IRQ flags cleared; mode RXContinuous. The LoRa-select bit is set from its
\* write on.
C10_InitSequence ==
  (done.op = "probe" /\ done.ret > 0) =>
    \E W \in {SelectSeq(done.log, IsWrite)} :
      /\ Len(W) = 8
      /\ \A i \in {1, 2, 3, 8} : W[i].adr = SX127X_REG_OP_MODE
      /\ ModeOf(W[1].data[1]) = SX127X_SLEEP_MODE
      /\ ModeOf(W[1].opmode) = SX127X_SLEEP_MODE
      /\ W[2].data[1] >= 128
      /\ ModeOf(W[2].data[1]) = SX127X_SLEEP_MODE
      /\ ModeOf(W[3].data[1]) = SX127X_STANDBY_MODE
      /\ W[4].adr = SX127X_REG_MODEM_CONFIG1
      /\ W[4].data[1] % 2 = 0
      /\ W[5].adr = SX127X_REG_FIFO_RX_BASE_ADDR /\ W[5].data = <<0>>
      /\ W[6].adr = SX127X_REG_FIFO_ADDR_PTR /\ W[6].data = <<0>>
      /\ W[7].adr = SX127X_REG_IRQ_FLAGS /\ W[7].data = <<255>>
      /\ ModeOf(W[8].data[1]) = SX127X_RXCONTINUOUS_MODE
      /\ \A i \in 2..8 : W[i].opmode >= 128
      /\ \A i \in 3..8 : W[i].adr = SX127X_REG_OP_MODE => W[i].data[1] >= 128
      /\ chip.regs[SX127X_REG_MODEM_CONFIG1] % 2 = 0
      /\ chip.regs[SX127X_REG_FIFO_RX_BASE_ADDR] = 0
      /\ chip.regs[SX127X_REG_IRQ_FLAGS] = 0
      /\ LoRaOn(chip) /\ ChipMode(chip) = SX127X_RXCONTINUOUS_MODE

\* C10, its case: the chip powered up with LoRa off and implicit header on
C10_Witness ==
  /\ done.op = "probe" /\ done.ret > 0
  /\ done.log[2].adr = SX127X_REG_OP_MODE /\ done.log[2].data[1] < 128
  /\ \E i \in 1..Len(done.log) :
        /\ done.log[i].kind = "r" /\ done.log[i].adr = SX127X_REG_MODEM_CONFIG1
        /\ done.log[i].data[1] % 2 = 1
  /\ LoRaOn(chip) /\ ChipMode(chip) = SX127X_RXCONTINUOUS_MODE

\* C11: when the version read fails or reads 0x00 or 0xFF, init_sx127X returns
\* -ENODEV having made no other register transfer, and loraspi_probe creates
\* no device.
C11_AbsentChipNotDriven ==
  (/\ done.op = "probe"
   /\ (~done.log[1].ok \/ done.log[1].data[1] \in {0, 255})) =>
    /\ done.ret = -ENODEV
    /\ Len(done.log) = 1
    /\ dev = "absent"

\* C11, its case: the version read itself fails
C11_Witness ==
  /\ done.op = "probe" /\ ~done.log[1].ok
  /\ done.ret = -ENODEV /\ dev = "absent"

\* C12: after sx127X_setLoRaPower(dBm) with dBm in -2..20, sx127X_getLoRaPower
\* returns dBm, and the boost bit is set exactly when dBm > 15.
C12_PowerRoundTrip ==
  (done.op = "setLoRaPower" /\ done.arg[1] \in -2..20) =>
    /\ sx127X_getLoRaPower(NewCall(chip, 0, 0)).rv = done.arg[1]
    /\ (chip.regs[SX127X_REG_PA_CONFIG] >= 128) <=> (done.arg[1] > 15)

\* C13: after sx127X_setLoRaSPRFactor(sf) with sf in {64, ..., 2048},
\* sx127X_getLoRaSPRFactor returns sf; for any other sf the stored
\* spreading-factor field is left as it was.
C13_SprFactorRoundTripOrRejected ==
  done.op \in {"setLoRaSPRFactor", "loraspi_setsprfactor"} =>
    IF done.arg[1] \in {64, 128, 256, 512, 1024, 2048}
    THEN sx127X_getLoRaSPRFactor(NewCall(chip, 0, 0)).rv = done.arg[1]
    ELSE chip.regs[SX127X_REG_MODEM_CONFIG2] \div 16
           = done.log[1].data[1] \div 16

\* C14: sx127X_setLoRaBW(Hz) stores the index of the smallest table entry that
\* is >= Hz, the index of 500000 when Hz is above 500000, and
\* sx127X_getLoRaBW then returns that entry.
C14_BandwidthSmallestNotBelow ==
  done.op = "setLoRaBW" =>
    \E i \in {chip.regs[SX127X_REG_MODEM_CONFIG1] \div 16} :
      /\ i \in 0..9
      /\ done.arg[1] > 500000 => i = 9
      /\ done.arg[1] <= 500000 =>
            /\ hz[i + 1] >= done.arg[1]
            /\ \A j \in 1..i : hz[j] < done.arg[1]
      /\ sx127X_getLoRaBW(NewCall(chip, 0, 0)).rv = hz[i + 1]
      /\ ~sx127X_getLoRaBW(NewCall(chip, 0, 0)).ub

\* C14, its case: a request between two table entries
C14_Witness ==
  /\ done.op = "setLoRaBW" /\ done.arg = <<125001>>
  /\ sx127X_getLoRaBW(NewCall(chip, 0, 0)).rv = 250000

\* C15: sx127X_setLoRaLNA(dB) writes into the gain field the 1-based index of
\* the first table entry that does not exceed dB, index 6 when dB is below
\* -48; the field is always in 1..6.
C15_LnaFirstNotExceeding ==
  done.op \in {"setLoRaLNA", "loraspi_setLNA"} =>
    \E g \in {chip.regs[SX127X_REG_LNA] \div 32} :
      /\ g \in 1..6
      /\ done.log[2].data[1] \div 32 = g
      /\ done.log[2].data[1] % 32 = done.log[1].data[1] % 32
      /\ done.arg[1] < -48 => g = 6
      /\ done.arg[1] >= -48 =>
            /\ lna_gain[g] <= done.arg[1]
            /\ \A j \in 1..(g - 1) : lna_gain[j] > done.arg[1]

\* C15, its case: a request below the table
C15_Witness ==
  /\ done.op = "setLoRaLNA" /\ done.arg = <<-50>>
  /\ chip.regs[SX127X_REG_LNA] \div 32 = 6

\* C16: sx127X_getLoRaLNA returns table[field - 1] for the gain fields 1..6
\* and never indexes the gain table out of its range.
C16_LnaDecodeDefined ==
  done.op = "getLoRaLNA" =>
    /\ ~done.ub
    /\ chip.regs[SX127X_REG_LNA] \div 32 \in 1..6 =>
          done.ret = lna_gain[chip.regs[SX127X_REG_LNA] \div 32]

C18_CodingRateRoundTrip ==
  (done.op = "setLoRaCR" /\ done.arg[1] \in 69..72) =>
    /\ sx127X_getLoRaCR(NewCall(chip, 0, 0)).rv = done.arg[1]
    /\ (chip.regs[SX127X_REG_MODEM_CONFIG1] % 16) \div 2 = (done.arg[1] % 16) - 4

\* C19: after sx127X_setLoRaRXByteTimeout(n), sx127X_getLoRaRXByteTimeout
\* returns n limited to 1..1023; the count is stored as the two low bits of
\* modem-config-2, whose other bits are kept, and a low byte, and is never 0.
C19_SymbolTimeoutClamped ==
  done.op = "setLoRaRXByteTimeout" =>
    \E n \in {IF done.arg[1] < 1 THEN 1
              ELSE IF done.arg[1] > 1023 THEN 1023 ELSE done.arg[1]} :
      /\ sx127X_getLoRaRXByteTimeout(NewCall(chip, 0, 0)).rv = n
      /\ chip.regs[SX127X_REG_MODEM_CONFIG2] % 4 = n \div 256
      /\ chip.regs[SX127X_REG_MODEM_CONFIG2 + 1] = n % 256
      /\ chip.regs[SX127X_REG_MODEM_CONFIG2] \div 4 = done.log[1].data[1] \div 4
      /\ (chip.regs[SX127X_REG_MODEM_CONFIG2] % 4) * 256
           + chip.regs[SX127X_REG_MODEM_CONFIG2 + 1] >= 1

\* C19, its case: a request of 0 symbols is stored as 1
C19_Witness ==
  /\ done.op = "setLoRaRXByteTimeout" /\ done.arg = <<0>>
  /\ sx127X_getLoRaRXByteTimeout(NewCall(chip, 0, 0)).rv = 1

\* C20: sx127X_setLoRaRXTimeout(ms) programs the symbol count
\* floor(ms * bandwidth / (spreading factor * 1000)) limited to 1..1023, the
\* quotient being that of the integers, and sx127X_getLoRaRXTimeout returns
\* floor(1000 * symbols * spreading factor / bandwidth).
C20_RxTimeoutExactQuotient ==
  done.op = "setLoRaRXTimeout" =>
    \E bw \in {hz[(chip.regs[SX127X_REG_MODEM_CONFIG1] \div 16) + 1]},
       sf \in {Pow2(chip.regs[SX127X_REG_MODEM_CONFIG2] \div 16)} :
      \E q \in {ExactMulDiv(done.arg[1], bw, sf * 1000)} :
        \E n \in {IF q < 1 THEN 1 ELSE IF q > 1023 THEN 1023 ELSE q} :
          /\ sx127X_getLoRaRXByteTimeout(NewCall(chip, 0, 0)).rv = n
          /\ sx127X_getLoRaRXTimeout(NewCall(chip, 0, 0)).rv
               = ExactMulDiv(1000 * n, sf, bw)

\* C22: sx127X_getLoRaLastPacketRSSI returns the packet-RSSI byte plus -164 if
\* bit 3 of the op-mode register is set, else -157, plus the signed SNR byte
\* divided by 4 (towards zero) only when that byte is negative;
\* sx127X_getLoRaRSSI returns the RSSI byte plus the same offset, uncorrected;
\* sx127X_getLoRaLastPacketSNR returns the signed SNR byte divided by 4
\* towards zero.
C22_SignalQuality ==
  \E snr \in {chip.regs[SX127X_REG_PKT_SNR_VALUE]},
     base \in {IF (chip.regs[SX127X_REG_OP_MODE] \div 8) % 2 = 1 THEN -164
               ELSE -157} :
    \E q \in {IF snr >= 128 THEN -((256 - snr) \div 4) ELSE snr \div 4} :
      /\ done.op = "getLoRaLastPacketRSSI" =>
            done.ret = chip.regs[SX127X_REG_PKT_RSSI_VALUE] + base
                       + (IF snr >= 128 THEN q ELSE 0)
      /\ done.op = "getLoRaRSSI" =>
            done.ret = chip.regs[SX127X_REG_RSSI_VALUE] + base
      /\ done.op = "getLoRaLastPacketSNR" => done.ret = q

\* C22, its case: SNR byte 251 (-5) lowers the last-packet RSSI by 1
C22_Witness ==
  /\ done.op = "getLoRaLastPacketRSSI"
  /\ chip.regs[SX127X_REG_PKT_SNR_VALUE] = 251
  /\ chip.regs[SX127X_REG_PKT_RSSI_VALUE] = 40
  /\ chip.regs[SX127X_REG_OP_MODE] = 128 + SX127X_RXCONTINUOUS_MODE
  /\ done.ret = -157 + 40 - 1

\* C28: sx127X_setLoRaBW, sx127X_setLoRaCR and sx127X_setLoRaImplicit each
\* change only their own field of modem-config-1 (bandwidth bits 7-4, coding
\* rate bits 3-1, implicit-header bit 0) and leave the other two as they were.
C28_ModemConfig1FieldsKept ==
  done.op \in {"setLoRaBW", "setLoRaCR", "setLoRaImplicit"} =>
    \E old \in {done.log[1].data[1]},
       new \in {chip.regs[SX127X_REG_MODEM_CONFIG1]} :
      /\ done.log[1].adr = SX127X_REG_MODEM_CONFIG1
      /\ done.op = "setLoRaBW" => new % 16 = old % 16
      /\ done.op = "setLoRaCR" =>
            (new \div 16 = old \div 16 /\ new % 2 = old % 2)
      /\ done.op = "setLoRaImplicit" => new \div 2 = old \div 2

\* C29: sx127X_setLoRaSPRFactor, sx127X_setLoRaCRC and
\* sx127X_setLoRaRXByteTimeout each change only their own field of
\* modem-config-2 (spreading factor bits 7-4, CRC enable bit 2, timeout bits
\* 1-0 and the timeout low byte) and leave the other fields as they were;
\* setting the RX timeout changes neither the spreading factor nor the CRC
\* enable.
C29_ModemConfig2FieldsKept ==
  done.op \in {"setLoRaSPRFactor", "loraspi_setsprfactor", "setLoRaCRC",
               "setLoRaRXByteTimeout", "setLoRaRXTimeout"} =>
    \E i \in 1..Len(done.log) :
      /\ done.log[i].kind = "r" /\ done.log[i].adr = SX127X_REG_MODEM_CONFIG2
      /\ \E old \in {done.log[i].data[1]},
            new \in {chip.regs[SX127X_REG_MODEM_CONFIG2]} :
           /\ done.op \in {"setLoRaSPRFactor", "loraspi_setsprfactor"} =>
                 new % 16 = old % 16
           /\ done.op = "setLoRaCRC" =>
                 (new \div 8 = old \div 8 /\ new % 4 = old % 4)
           /\ done.op \notin {"setLoRaRXByteTimeout", "setLoRaRXTimeout"} =>
                 \A j \in 1..Len(done.log) :
                    done.log[j].kind = "w" =>
                      (done.log[j].adr = SX127X_REG_MODEM_CONFIG2
                       /\ Len(done.log[j].data) = 1)
           /\ done.op \in {"setLoRaRXByteTimeout", "setLoRaRXTimeout"} =>
                 new \div 4 = old \div 4

\* C29, its case: a timeout of 256 symbols is set on modem-config-2 0xC7;
\* spreading factor 12 and the CRC enable stay, the timeout bits go to 01
C29_Witness ==
  /\ done.op = "setLoRaRXByteTimeout" /\ done.arg = <<256>>
  /\ done.log[1].data[1] = 199
  /\ chip.regs[SX127X_REG_MODEM_CONFIG2] = 197
  /\ chip.regs[SX127X_REG_MODEM_CONFIG2 + 1] = 0

\* a loraspi_read call passes lines 1024-1043 in this step
ReadEnters == loc.op = "none" /\ loc'.op = "read"

\* C24: a loraspi_read that finds the mode field not RXContinuous writes, in
\* this order and before its first poll, mode Standby, RX FIFO base 0, all IRQ
\* flags cleared, mode RXContinuous; one that finds RXContinuous writes no
\* register before polling and leaves the chip as it was, so that an RXDone
\* raised before the call is seen by the first poll and its packet delivered.
C24_PreparesOnlyWhenNeeded ==
  /\ [][ReadEnters =>
          \E W \in {SelectSeq(loc'.log, IsWrite)} :
            IF ChipMode(chip) # SX127X_RXCONTINUOUS_MODE
            THEN /\ Len(W) = 4
                 /\ W[1].adr = SX127X_REG_OP_MODE
                 /\ ModeOf(W[1].data[1]) = SX127X_STANDBY_MODE
                 /\ W[2].adr = SX127X_REG_FIFO_RX_BASE_ADDR /\ W[2].data = <<0>>
                 /\ W[3].adr = SX127X_REG_IRQ_FLAGS /\ W[3].data = <<255>>
                 /\ W[4].adr = SX127X_REG_OP_MODE
                 /\ ModeOf(W[4].data[1]) = SX127X_RXCONTINUOUS_MODE
                 /\ ChipMode(chip') = SX127X_RXCONTINUOUS_MODE
                 /\ loc'.polls = 0
            ELSE W = <<>> /\ chip' = chip /\ loc'.polls = 0]_vars
  /\ []((ReadSucceeded /\ done.polls = 1
          /\ ModeOf(done.log[1].data[1]) = SX127X_RXCONTINUOUS_MODE) =>
           /\ done.ret = Min(Min(chip.regs[SX127X_REG_RX_NB_BYTES], done.size),
                             bufmaxlen)
           /\ done.out = [i \in 1..done.ret |->
                            PktByte(chip.regs[SX127X_REG_RX_NB_BYTES], i - 1)])

\* C24, its case: the chip was in RXContinuous with a packet waiting; no
\* register was written before the first poll, which saw RXDone, and the 10
\* bytes were delivered
C24_Witness ==
  /\ ReadSucceeded /\ done.polls = 1 /\ done.ret = 10
  /\ ModeOf(done.log[1].data[1]) = SX127X_RXCONTINUOUS_MODE
  /\ done.log[2].adr = SX127X_REG_IRQ_FLAGS /\ done.log[2].kind = "r"

\* C25: every payload transfer through the FIFO register comes right after
\* the FIFO pointer was programmed for its direction: a payload write follows
\* the pointer write of the TX base 0x80, made after the mode was set to
\* Standby; a payload read follows the pointer write of the last-packet start
\* address, with only the length read in between.
C25_FifoPointerProgrammed ==
  done.op \in {"read", "write"} =>
    \A i \in 1..Len(done.log) :
      done.log[i].adr = SX127X_REG_FIFO =>
        IF done.log[i].kind = "w"
        THEN /\ i >= 3
             /\ done.log[i - 1].kind = "w"
             /\ done.log[i - 1].adr = SX127X_REG_FIFO_ADDR_PTR
             /\ done.log[i - 1].data = <<TX_BASE_ADR>>
             /\ ModeOf(done.log[i - 1].opmode) = SX127X_STANDBY_MODE
             /\ \E j \in 1..(i - 2) :
                   /\ done.log[j].kind = "w"
                   /\ done.log[j].adr = SX127X_REG_OP_MODE
                   /\ ModeOf(done.log[j].data[1]) = SX127X_STANDBY_MODE
        ELSE /\ i >= 4
             /\ done.log[i - 3].kind = "r"
             /\ done.log[i - 3].adr = SX127X_REG_FIFO_RX_CURRENT_ADDR
             /\ done.log[i - 2].kind = "w"
             /\ done.log[i - 2].adr = SX127X_REG_FIFO_ADDR_PTR
             /\ done.log[i - 2].data = done.log[i - 3].data
             /\ done.log[i - 1].kind = "r"
             /\ done.log[i - 1].adr = SX127X_REG_RX_NB_BYTES

\* C25, its case: a packet is read out of the FIFO after a transmit had left
\* its payload, and the pointer, in the TX half
C25_Witness ==
  /\ ReadSucceeded /\ done.ret = 10
  /\ done.out[1] = PktByte(10, 0)
  /\ TX_BASE_ADR \in DOMAIN chip.fifo
  /\ \E i \in 1..Len(done.log) :
        done.log[i].adr = SX127X_REG_FIFO /\ done.log[i].kind = "r"

\* C27: a loraspi_write that reaches the chip clears TXDone and only then,
\* and only when c > 0 bytes went into the FIFO, sets the mode to TX; TXDone is
\* not set when the mode goes to TX, so a positive return means that a poll
\* made after that saw TXDone set.
C27_TxDoneClearedBeforeTx ==
  (done.op = "write" /\ done.log # <<>>) =>
    /\ Len(done.clears) >= 1
    /\ done.clears[1].mask = SX127X_FLAG_TXDONE
    /\ BitAnd(done.clears[1].after, SX127X_FLAG_TXDONE) = 0
    /\ (done.c0 > 0) <=>
          \E i \in 1..Len(done.log) :
             /\ done.log[i].kind = "w" /\ done.log[i].adr = SX127X_REG_OP_MODE
             /\ ModeOf(done.log[i].data[1]) = SX127X_TX_MODE
    /\ \A i \in 1..Len(done.log) :
          (/\ done.log[i].kind = "w" /\ done.log[i].adr = SX127X_REG_OP_MODE
           /\ ModeOf(done.log[i].data[1]) = SX127X_TX_MODE) =>
             /\ i >= 3
             /\ done.log[i - 2].kind = "w"
             /\ done.log[i - 2].adr = SX127X_REG_IRQ_FLAGS
             /\ BitAnd(done.log[i - 2].data[1], SX127X_FLAG_TXDONE) # 0
             /\ done.log[i - 1].kind = "r"
             /\ done.log[i - 1].adr = SX127X_REG_OP_MODE
    /\ done.ret > 0 =>
          /\ done.c0 > 0 /\ done.polls >= 1
          /\ BitAnd(done.flag, SX127X_FLAG_TXDONE) # 0

\* C27, its case: TXDone was still set from an earlier transmission when the
\* call began; it was cleared, and the call returned its byte count
C27_Witness ==
  /\ done.op = "write" /\ done.ret = 3
  /\ Len(done.clears) >= 1
  /\ BitAnd(done.clears[1].before, SX127X_FLAG_TXDONE) # 0

\* C30: every mode write of loraspi_read, loraspi_write and loraspi_setstate
\* changes the 3-bit mode field only: bits 7-3 of the op-mode register are
\* after the write what was read before it; the LoRa-select bit stays set
\* after initialization, and when the call returns sx127X_getState gives the
\* mode last written.
C30_ModeFieldOnly ==
  /\ dev = "ready" => LoRaOn(chip)
  /\ done.op \in {"read", "write", "setstate"} =>
       /\ \A i \in 1..Len(done.log) :
            (done.log[i].kind = "w" /\ done.log[i].adr = SX127X_REG_OP_MODE) =>
              /\ i >= 2
              /\ done.log[i - 1].kind = "r"
              /\ done.log[i - 1].adr = SX127X_REG_OP_MODE
              /\ done.log[i].data[1] \div 8 = done.log[i - 1].data[1] \div 8
              /\ done.log[i].opmode \div 8 = done.log[i - 1].data[1] \div 8
              /\ ModeOf(done.log[i].opmode) = ModeOf(done.log[i].data[1])
              /\ (\A j \in (i + 1)..Len(done.log) :
                     ~(done.log[j].kind = "w"
                       /\ done.log[j].adr = SX127X_REG_OP_MODE)) =>
                   sx127X_getState(NewCall(chip, 0, 0)).rv
                     = ModeOf(done.log[i].data[1])
       /\ done.op = "setstate" =>
            sx127X_getState(NewCall(chip, 0, 0)).rv = done.arg[1]

\* C30, its case: loraspi_setstate to Sleep leaves the LoRa-select bit and
\* the frequency-port bit set
C30_Witness ==
  /\ done.op = "setstate" /\ done.arg = <<SX127X_SLEEP_MODE>>
  /\ chip.regs[SX127X_REG_OP_MODE] = 128 + 8 + SX127X_SLEEP_MODE

\* C26: a transmit writes min(len, 255) bytes of the source buffer to the
\* FIFO and then writes the payload-length register with the number of bytes
\* that FIFO write transferred; the payload-length register is written with
\* nothing else, and not at all with a count when the FIFO write failed.
C26_PayloadLengthIsCount ==
  done.op = "write" =>
    \A i \in 1..Len(done.log) :
      (/\ done.log[i].kind = "w" /\ done.log[i].ok
       /\ done.log[i].adr = SX127X_REG_PAYLOAD_LENGTH) =>
         /\ i >= 2
         /\ done.log[i - 1].kind = "w"
         /\ done.log[i - 1].adr = SX127X_REG_FIFO
         /\ done.log[i - 1].ok
         /\ Len(done.log[i - 1].data) = Min(done.size, SX127X_MAX_FIFO_LENGTH)
         /\ done.log[i].data = <<Len(done.log[i - 1].data)>>

Inside(p) ==
  pc[p] \in {"rd_poll", "rd_finish", "wr_poll", "wr_finish", "r2r_flag"}
             \cup LockedCalls
\* caller p makes register accesses in this step
Accesses(p) ==
  \/ done' # done /\ done'.p = p /\ done'.log # <<>>
  \/ loc' # loc /\ loc'.op # "none" /\ buf_lock' = p

\* C21: at most one caller is inside a session operation (read, write, get
\* and set handlers, ready2read), a caller inside one holds buf_lock, and no
\* step that accesses registers is taken while another caller holds it.
C21_MutualExclusion ==
  /\ [](\A p \in Procs : Inside(p) => buf_lock = p)
  /\ [](\A p, q \in Procs : (Inside(p) /\ Inside(q)) => p = q)
  /\ [][\A p \in Procs : Accesses(p) => buf_lock \in {NoProc, p}]_vars

\* C21, its case: one caller is polling inside loraspi_read while the other
\* has passed the mutex_is_locked test of loraspi_ready2read and waits for
\* the lock
C21_Witness ==
  /\ pc[1] = "rd_poll" /\ buf_lock = 1
  /\ pc[2] = "r2r_lock"


\* C31: loraspi_write never stores more bytes into the session transmit
\* buffer than its capacity: whatever size the caller supplies, the number
\* of bytes copied into tx_buf and recorded in tx_buflen is at most bufmaxlen.
C31_TxCopyWithinCapacity ==
  loc.op = "write" => loc.tx_buflen <= bufmaxlen


\* C32: loraspi_read transfers payload bytes from the FIFO only when the flags
\* its polling loop observed include RXDone and exclude RXTimeout and the
\* CRC-error flag was clear when re-read; a call whose loop did not observe
\* RXDone never returns a non-negative byte count.
C32_PayloadOnlyAfterRxDone ==
  done.op = "read" =>
    /\ (\E i \in 1..Len(done.log) :
          done.log[i].kind = "r" /\ done.log[i].adr = SX127X_REG_FIFO) =>
         /\ BitAnd(done.flag, SX127X_FLAG_RXDONE) # 0
         /\ BitAnd(done.flag, SX127X_FLAG_RXTIMEOUT) = 0
         /\ ~done.crc
    /\ done.out # <<>> => BitAnd(done.flag, SX127X_FLAG_RXDONE) # 0
    /\ done.ret >= 0 => BitAnd(done.flag, SX127X_FLAG_RXDONE) # 0
    /\ BitAnd(done.flag, SX127X_FLAG_RXDONE) = 0 =>
         done.ret \in {-ENODATA, -EBADMSG}

\* C32, its case: the loop saw RXDone alone, the CRC re-read was clear, and
\* the packet's ten bytes came from the FIFO register
C32_Witness ==
  /\ done.op = "read" /\ done.flag = SX127X_FLAG_RXDONE /\ ~done.crc
  /\ done.ret = 10 /\ Len(done.out) = 10
  /\ \E i \in 1..Len(done.log) :
        /\ done.log[i].kind = "r" /\ done.log[i].adr = SX127X_REG_FIFO
        /\ Len(done.log[i].data) = 10


\* C33: sx127X_getLoRaBW indexes the 10-entry bandwidth table within bounds
\* for every content of the modem-config-1 register: the 4-bit bandwidth
\* field it uses as index is in 0..9, also for values sx127X_setLoRaBW did not
\* write (here in sx127X_getLoRaBW itself and in sx127X_setLoRaRXTimeout,
\* which calls it).
C33_BwIndexInTable ==
  done.op \in {"getLoRaBW", "setLoRaRXTimeout"} =>
    /\ done.log[1].adr = SX127X_REG_MODEM_CONFIG1
    /\ done.log[1].data[1] \div 16 \in 0..(Len(hz) - 1)
    /\ ~done.ub

====
